---- MODULE Spec2Model ----
(***************************************************************************)
(* A model of the analysis pipeline of the Next.js/TypeScript analyzer:    *)
(* the module dependency graph builder and its cycle detector, the         *)
(* component graph builder, the directory scanner, the route analyzer, the *)
(* SOLID analyzer with its score calculator and the refactor suggestion    *)
(* generator.                                                              *)
(*                                                                         *)
(* Every invocation of an analyzer is a "run"; the local accumulators of   *)
(* an invocation (the consts declared inside the async function) are the   *)
(* run's entries of the variables below.                                   *)
(***************************************************************************)
EXTENDS Integers, Sequences, FiniteSets, TLC

VARIABLES
  pc,                    \* run -> position of the invocation
  fileData,              \* run -> the FileNode[] argument of the analyzers
  dependencyMap,         \* run -> Map<string, Set<string>>, in insertion order
  filePathToModuleName,  \* run -> Map<string, string>
  dependencyNodes,       \* run -> DependencyNode[]
  fileIdx,               \* run -> index of the next file of the for..of loop
  circularDependencies,  \* run -> CircularDependency[] of detectCircularDependencies
  visited,               \* run -> Set<string> of detectCircularDependencies
  stack,                 \* run -> Set<string> of detectCircularDependencies
  frames,                \* run -> the activation records of dfs, innermost last
  rootIdx,               \* run -> index of the next key of the "DFS from each node" loop
  componentNodes,        \* run -> ComponentNodeData[] of analyzeComponents
  importMap,             \* run -> Map<string, string[]> of analyzeComponents
  relationships,         \* run -> ComponentRelationship[] of analyzeComponents
  issues,                \* run -> SolidIssue[] of analyzeSolid
  totalComponents,       \* run -> totalComponents of analyzeSolid
  filesAnalyzed,         \* run -> the totalFiles argument of calculateScores
  score,                 \* run -> the scores calculateScores returned
  disk,                  \* run -> the directory on disk at the project root
  scanFrames,            \* run -> the activation records of buildDirectoryTree
  structure,             \* run -> the DirectoryNode scanProjectDirectory returned
  routeMap,              \* run -> the RouteMap analyzeRoutes returned
  suggestions,           \* run -> RefactorSuggestion[] of generateRefactorSuggestions
  typeInfos,             \* run -> TypeInfo[] (types) of analyzeTypes
  typeUsages,            \* run -> TypeUsage[] (usages) of analyzeTypes
  typeIssues             \* run -> TypeIssue[] (issues) of analyzeTypes

depVars == <<dependencyMap, filePathToModuleName, dependencyNodes>>
dfsVars == <<circularDependencies, visited, stack, frames, rootIdx>>
compVars == <<componentNodes, importMap, relationships>>
solidVars == <<issues, totalComponents, filesAnalyzed, score>>
typeVars == <<typeInfos, typeUsages, typeIssues>>
reportVars == <<routeMap, suggestions, typeVars>>
scanVars == <<scanFrames, structure, disk, reportVars>>
vars == <<pc, fileData, fileIdx, depVars, dfsVars, compVars, solidVars, scanVars>>

Runs == DOMAIN pc

(***************************************************************************)
(* Generic helpers                                                         *)
(***************************************************************************)
Range(s) == {s[i] : i \in DOMAIN s}

NoDup(s) == \A i, j \in DOMAIN s : i # j => s[i] # s[j]

Max(a, b) == IF a >= b THEN a ELSE b

\* Array.prototype.findIndex, 1-based; 0 when no element matches.
FindIndex(s, x) ==
  IF \E i \in DOMAIN s : s[i] = x
  THEN CHOOSE i \in DOMAIN s : s[i] = x /\ \A j \in 1..(i - 1) : s[j] # x
  ELSE 0

\* Array.prototype.slice(from), 1-based.
SliceFrom(s, from) == SubSeq(s, from, Len(s))

(***************************************************************************)
(* Paths.  A path is a directory (sequence of segment names), the stem of  *)
(* the last segment and its extension ("" when it has none).               *)
(***************************************************************************)
MkPath(dir, stem, ext) == [dir |-> dir, stem |-> stem, ext |-> ext]

\* path.basename(p)
Basename(p) == [stem |-> p.stem, ext |-> p.ext]

\* path.extname(p)
Extname(p) == p.ext

(***************************************************************************)
(* Map<K,V> in insertion order: a sequence of <<key, value>> pairs.        *)
(***************************************************************************)
MapKeys(m) == [i \in DOMAIN m |-> m[i][1]]

MapHas(m, k) == \E i \in DOMAIN m : m[i][1] = k

MapGet(m, k) == m[CHOOSE i \in DOMAIN m : m[i][1] = k][2]

\* Map.prototype.set: an existing key keeps its position.
MapSet(m, k, v) ==
  IF MapHas(m, k)
  THEN [i \in DOMAIN m |-> IF m[i][1] = k THEN <<k, v>> ELSE m[i]]
  ELSE Append(m, <<k, v>>)

(***************************************************************************)
(* detectCircularDependencies                                              *)
(***************************************************************************)
\* filePathToModuleName.get(p) || p
LabelOf(names, p) == IF MapHas(names, p) THEN MapGet(names, p) ELSE p

DependenciesOfFirstOnly(map, node) ==
  IF MapHas(map, node) /\ MapGet(map, node) # <<>> THEN <<MapGet(map, node)[1]>> ELSE <<>>

\* dependencyMap.get(node) || new Set(): the imports in Set insertion order
DependenciesOf(map, node) == IF MapHas(map, node) THEN MapGet(map, node) ELSE <<>>

SeverityBuggy(cycle) == IF Len(cycle) >= 3 THEN "critical" ELSE "warning"

\* cycle.length > 3 ? 'critical' : 'warning'
Severity(cycle) == IF Len(cycle) > 3 THEN "critical" ELSE "warning"

CycleRecordWholePath(names, path, node) ==
  LET cycle == [i \in DOMAIN path |-> LabelOf(names, path[i])]
  IN  [path |-> cycle, severity |-> Severity(cycle)]

CycleRecordFromCaller(names, path, node) ==
  LET cycle == <<LabelOf(names, path[Len(path)])>>
  IN  [path |-> cycle, severity |-> Severity(cycle)]

\* The record pushed when dfs meets a node that is on the stack.
CycleRecord(names, path, node) ==
  LET cycleStart == FindIndex(path, node)
      sliced == SliceFrom(path, cycleStart)
      cycle == [i \in DOMAIN sliced |-> LabelOf(names, sliced[i])]
  IN  [path |-> cycle, severity |-> Severity(cycle)]

IsFullyExploredNever(vis, node) == FALSE

\* "Skip if already fully explored": visited.has(node)
IsFullyExplored(vis, node) == node \in vis

\* dfs with one "seen" set: every node met again counts as a cycle.
DfsCallSeenIsCycle(r, node, path, callerFrames) ==
  IF node \in visited[r] \cup stack[r]
  THEN /\ circularDependencies' =
            [circularDependencies EXCEPT ![r] =
               Append(@, CycleRecord(filePathToModuleName[r],
                                     IF FindIndex(path, node) >= 1 THEN path
                                     ELSE <<node>> \o path, node))]
       /\ frames' = [frames EXCEPT ![r] = callerFrames]
       /\ UNCHANGED <<visited, stack>>
  ELSE /\ stack' = [stack EXCEPT ![r] = @ \cup {node}]
       /\ frames' = [frames EXCEPT ![r] =
                       Append(callerFrames,
                              [node |-> node, path |-> Append(path, node), next |-> 1])]
       /\ UNCHANGED <<circularDependencies, visited>>

\* A call dfs(node, path), up to its first recursive call or its return;
\* callerFrames are the activation records of the callers.
DfsCall(r, node, path, callerFrames) ==
  IF IsFullyExplored(visited[r], node)
  THEN /\ frames' = [frames EXCEPT ![r] = callerFrames]
       /\ UNCHANGED <<circularDependencies, visited, stack>>
  ELSE IF node \in stack[r]
  THEN /\ circularDependencies' =
            [circularDependencies EXCEPT ![r] =
               IF FindIndex(path, node) >= 1
               THEN Append(@, CycleRecord(filePathToModuleName[r], path, node))
               ELSE @]
       /\ frames' = [frames EXCEPT ![r] = callerFrames]
       /\ UNCHANGED <<visited, stack>>
  ELSE /\ stack' = [stack EXCEPT ![r] = @ \cup {node}]
       /\ frames' = [frames EXCEPT ![r] =
                       Append(callerFrames,
                              [node |-> node, path |-> Append(path, node), next |-> 1])]
       /\ UNCHANGED <<circularDependencies, visited>>

\* for (const node of dependencyMap.keys()) dfs(node)
DfsRoot(r) ==
  /\ pc[r] = "detect"
  /\ frames[r] = <<>>
  /\ rootIdx[r] <= Len(dependencyMap[r])
  /\ rootIdx' = [rootIdx EXCEPT ![r] = @ + 1]
  /\ DfsCall(r, MapKeys(dependencyMap[r])[rootIdx[r]], <<>>, <<>>)
  /\ UNCHANGED <<pc, fileData, fileIdx, depVars, compVars, solidVars, scanVars>>

DfsExploreSameEdge(r) ==
  /\ pc[r] = "detect"
  /\ frames[r] # <<>>
  /\ LET top == frames[r][Len(frames[r])]
         deps == DependenciesOf(dependencyMap[r], top.node)
     IN  /\ top.next <= Len(deps)
         /\ IF deps[top.next] \in visited[r]
            THEN UNCHANGED dfsVars
            ELSE /\ UNCHANGED rootIdx
                 /\ DfsCall(r, deps[top.next], top.path,
                            [frames[r] EXCEPT ![Len(frames[r])].next = top.next + 1])
  /\ UNCHANGED <<pc, fileData, fileIdx, depVars, compVars, solidVars, scanVars>>

\* for (const dependency of dependencies) dfs(dependency, [...path])
DfsExplore(r) ==
  /\ pc[r] = "detect"
  /\ frames[r] # <<>>
  /\ LET top == frames[r][Len(frames[r])]
         deps == DependenciesOf(dependencyMap[r], top.node)
     IN  /\ top.next <= Len(deps)
         /\ DfsCall(r, deps[top.next], top.path,
                    [frames[r] EXCEPT ![Len(frames[r])].next = top.next + 1])
  /\ UNCHANGED <<pc, fileData, fileIdx, depVars, rootIdx, compVars, solidVars, scanVars>>

DfsReturnBeforeLastEdge(r) ==
  /\ pc[r] = "detect"
  /\ frames[r] # <<>>
  /\ LET top == frames[r][Len(frames[r])]
         deps == DependenciesOf(dependencyMap[r], top.node)
     IN  /\ top.next >= Len(deps)
         /\ stack' = [stack EXCEPT ![r] = @ \ {top.node}]
         /\ visited' = [visited EXCEPT ![r] = @ \cup {top.node}]
         /\ frames' = [frames EXCEPT ![r] = SubSeq(@, 1, Len(@) - 1)]
  /\ UNCHANGED <<pc, fileData, fileIdx, depVars, circularDependencies, rootIdx, compVars, solidVars, scanVars>>

\* "Mark as fully explored": stack.delete(node); visited.add(node); return
DfsReturn(r) ==
  /\ pc[r] = "detect"
  /\ frames[r] # <<>>
  /\ LET top == frames[r][Len(frames[r])]
         deps == DependenciesOf(dependencyMap[r], top.node)
     IN  /\ top.next > Len(deps)
         /\ stack' = [stack EXCEPT ![r] = @ \ {top.node}]
         /\ visited' = [visited EXCEPT ![r] = @ \cup {top.node}]
         /\ frames' = [frames EXCEPT ![r] = SubSeq(@, 1, Len(@) - 1)]
  /\ UNCHANGED <<pc, fileData, fileIdx, depVars, circularDependencies, rootIdx, compVars, solidVars, scanVars>>

\* return circularDependencies
DetectReturn(r) ==
  /\ pc[r] = "detect"
  /\ frames[r] = <<>>
  /\ rootIdx[r] > Len(dependencyMap[r])
  /\ pc' = [pc EXCEPT ![r] = "detected"]
  /\ UNCHANGED <<fileData, fileIdx, depVars, dfsVars, compVars, solidVars, scanVars>>

(***************************************************************************)
(* FileNode and the parsed content of a file                               *)
(***************************************************************************)
\* The names that start with an uppercase letter: /^[A-Z]/.test(name)
CapitalizedNames == {"Button", "Card", "Layout", "Home", "A", "B"}

IsCapitalized(name) == name \in CapitalizedNames

\* The names that start with "use": name.startsWith('use')
UsePrefixedNames == {"useData", "useCard"}

StartsWithUse(name) == name \in UsePrefixedNames

\* file.path.includes('/seg/'): the path has the directory segment seg.
PathIncludesDir(p, seg) == seg \in Range(p.dir)

TsExtensions == <<".ts", ".tsx", ".js", ".jsx">>

\* isNextPage
IsNextPage(p) ==
  /\ Extname(p) \in {".tsx", ".jsx", ".js", ".ts"}
  /\ \/ PathIncludesDir(p, "pages")
     \/ (PathIncludesDir(p, "app") /\ ~PathIncludesDir(p, "components"))

\* isReactComponent
IsReactComponent(p) ==
  /\ Extname(p) \in {".tsx", ".jsx"}
  /\ (IsCapitalized(p.stem) \/ p.stem = "index")

\* createFileNode; ast is what parseFileFromPath(file.path) yields for the
\* file's content, size the size reported by stat.
CreateFileNode(p, size, ast) ==
  [name |-> Basename(p), path |-> p, type |-> "file", size |-> size,
   extension |-> Extname(p),
   metadata |-> [isPage |-> IsNextPage(p),
                 isComponent |-> IsReactComponent(p),
                 isLayout |-> (Basename(p) = [stem |-> "layout", ext |-> ".tsx"]
                               \/ Basename(p) = [stem |-> "layout", ext |-> ".jsx"])],
   ast |-> ast]

\* The filter of the analyzers: .ts, .tsx, .js and .jsx files.
IsTsFile(file) == file.extension \in Range(TsExtensions)

TsFiles(files) == SelectSeq(files, IsTsFile)

(***************************************************************************)
(* Import specifiers and resolveImportPath                                 *)
(***************************************************************************)
\* An import source: kind "relative" ('./x', '../x'), "absolute" ('/x') or
\* "package" ('react'); up counts the leading '..' segments, down holds the
\* directory segments that follow, stem and ext the last segment.
MkSpecifier(kind, up, down, stem, ext) ==
  [kind |-> kind, up |-> up, down |-> down, stem |-> stem, ext |-> ext]

\* importPath.startsWith('.') || importPath.startsWith('/')
IsLocalSpecifier(spec) == spec.kind \in {"relative", "absolute"}

\* path.dirname(sourcePath)
Dirname(p) == p.dir

\* path.resolve(sourceDir, importPath)
PathResolve(sourceDir, spec) ==
  IF spec.kind = "absolute"
  THEN MkPath(spec.down, spec.stem, spec.ext)
  ELSE MkPath(SubSeq(sourceDir, 1, Max(0, Len(sourceDir) - spec.up)) \o spec.down,
              spec.stem, spec.ext)

ResolveImportPathKeepBare(sourcePath, spec) == PathResolve(Dirname(sourcePath), spec)

\* resolveImportPath: a path without extension gets the first entry of the
\* extension list, without a check that the file exists.
ResolveImportPath(sourcePath, spec) ==
  LET resolvedPath == PathResolve(Dirname(sourcePath), spec)
  IN  IF Extname(resolvedPath) = ""
      THEN MkPath(resolvedPath.dir, resolvedPath.stem, TsExtensions[1])
      ELSE resolvedPath

\* Set.prototype.add at the end of the insertion order.
SetAdd(s, x) == IF x \in Range(s) THEN s ELSE Append(s, x)

RECURSIVE ImportPathsOf(_, _, _)
\* The importPaths Set of one file: the resolved local imports, in order.
ImportPathsOf(sourcePath, imports, acc) ==
  IF imports = <<>> THEN acc
  ELSE ImportPathsOf(sourcePath, Tail(imports),
         IF IsLocalSpecifier(Head(imports).source)
         THEN SetAdd(acc, ResolveImportPath(sourcePath, Head(imports).source))
         ELSE acc)

RECURSIVE ExportNamesOf(_)
\* exportNames: the exported names of named specifiers, 'default' for a
\* default export, nothing for other export declarations.
ExportNamesOf(exports) ==
  IF exports = <<>> THEN <<>>
  ELSE (IF Head(exports).type = "ExportNamedDeclaration" THEN Head(exports).specifiers
        ELSE IF Head(exports).type = "ExportDefaultDeclaration" THEN <<"default">>
        ELSE <<>>) \o ExportNamesOf(Tail(exports))

\* "Determine file type"
DependencyType(file) ==
  IF file.metadata.isPage THEN "page"
  ELSE IF file.metadata.isComponent THEN "component"
  ELSE IF PathIncludesDir(file.path, "api") THEN "api"
  ELSE IF PathIncludesDir(file.path, "hooks") \/ StartsWithUse(file.path.stem) THEN "hook"
  ELSE IF PathIncludesDir(file.path, "lib") THEN "lib"
  ELSE IF PathIncludesDir(file.path, "config") THEN "config"
  ELSE "util"

\* "Create dependency node"
DependencyNode(file) ==
  [id |-> file.path, label |-> Basename(file.path), filePath |-> file.path,
   type |-> DependencyType(file),
   imports |-> ImportPathsOf(file.path, file.ast.imports, <<>>),
   exports |-> ExportNamesOf(file.ast.exports)]

(***************************************************************************)
(* analyzeDependencies                                                     *)
(***************************************************************************)
DependencyMapOfFirstRun(r) == dependencyMap[1]

\* const dependencyMap = new Map() is local to the invocation: the map an
\* invocation stores into is its own.
DependencyMapOfRun(r) == dependencyMap[r]

\* One iteration of the first pass: parse the file, collect its resolved
\* imports and exports, push its node and store it in both maps; a file
\* that fails to parse is skipped.
DepsFile(r) ==
  /\ pc[r] = "deps"
  /\ fileIdx[r] <= Len(TsFiles(fileData[r]))
  /\ LET file == TsFiles(fileData[r])[fileIdx[r]]
     IN  IF file.ast.ok
         THEN /\ dependencyNodes' = [dependencyNodes EXCEPT ![r] =
                                       Append(@, DependencyNode(file))]
              /\ filePathToModuleName' = [filePathToModuleName EXCEPT ![r] =
                                            MapSet(@, file.path, Basename(file.path))]
              /\ dependencyMap' = [dependencyMap EXCEPT ![r] =
                                     MapSet(DependencyMapOfRun(r), file.path,
                                            DependencyNode(file).imports)]
         ELSE UNCHANGED depVars
  /\ fileIdx' = [fileIdx EXCEPT ![r] = @ + 1]
  /\ UNCHANGED <<pc, fileData, dfsVars, compVars, solidVars, scanVars>>

\* After the last file: detectCircularDependencies(dependencyMap, filePathToModuleName)
DepsDetect(r) ==
  /\ pc[r] = "deps"
  /\ fileIdx[r] > Len(TsFiles(fileData[r]))
  /\ pc' = [pc EXCEPT ![r] = "detect"]
  /\ circularDependencies' = [circularDependencies EXCEPT ![r] = <<>>]
  /\ visited' = [visited EXCEPT ![r] = {}]
  /\ stack' = [stack EXCEPT ![r] = {}]
  /\ frames' = [frames EXCEPT ![r] = <<>>]
  /\ rootIdx' = [rootIdx EXCEPT ![r] = 1]
  /\ UNCHANGED <<fileData, fileIdx, depVars, compVars, solidVars, scanVars>>

(***************************************************************************)
(* Inputs of analyzeDependencies                                           *)
(***************************************************************************)
\* The largest number of import declarations of a file.
MaxImports == 2

\* The stems of the two source files of a project, in enumeration order.
FileStems == <<"a", "Button">>

\* The directories the files live in: the first file in the first one.
FileDirs == << <<"src">>, <<"src", "hooks">> >>

RECURSIVE CommonPrefix(_, _)
CommonPrefix(d, e) ==
  IF d # <<>> /\ e # <<>> /\ Head(d) = Head(e)
  THEN 1 + CommonPrefix(Tail(d), Tail(e)) ELSE 0

\* The relative specifier a developer writes in file from to import file to,
\* with or without the extension of to.
RelativeSpecifier(from, to, withExt) ==
  LET c == CommonPrefix(from.dir, to.dir)
  IN  MkSpecifier("relative", Len(from.dir) - c, SubSeq(to.dir, c + 1, Len(to.dir)),
                  to.stem, IF withExt THEN to.ext ELSE "")

\* The export declarations of the i-th file.
ExportsOfFile(i) ==
  IF i = 1 THEN <<[type |-> "ExportDefaultDeclaration", specifiers |-> <<>>]>>
  ELSE <<[type |-> "ExportNamedDeclaration", specifiers |-> <<"helper">>],
         [type |-> "ExportAllDeclaration", specifiers |-> <<>>]>>

\* The import declarations file from may hold: the other file with or
\* without its extension, or a package.
ImportChoices(from, other) ==
  {[source |-> RelativeSpecifier(from, other, w),
    specifiers |-> <<[type |-> "ImportDefaultSpecifier", local |-> other.stem]>>] :
      w \in BOOLEAN}
  \cup {[source |-> MkSpecifier("package", 0, <<>>, "react", ""),
         specifiers |-> <<[type |-> "ImportDefaultSpecifier", local |-> "React"]>>]}

ImportLists(from, other) ==
  UNION {[1..l -> ImportChoices(from, other)] : l \in 0..MaxImports}

\* The syntax tree of a file: ok is FALSE when reading or parsing throws.
MkAst(ok, imports, exports, components, types) ==
  [ok |-> ok, imports |-> imports, exports |-> exports,
   components |-> components, types |-> types]

ReadmeFile ==
  CreateFileNode(MkPath(<<"src">>, "readme", ".md"), 1,
                 MkAst(FALSE, <<>>, <<>>, <<>>, <<>>))

InitCompIdle(R) ==
  /\ componentNodes = [r \in R |-> <<>>]
  /\ importMap = [r \in R |-> <<>>]
  /\ relationships = [r \in R |-> <<>>]

\* No scores have been calculated yet.
NoScore == <<>>

InitSolidIdle(R) ==
  /\ issues = [r \in R |-> <<>>]
  /\ totalComponents = [r \in R |-> 0]
  /\ filesAnalyzed = [r \in R |-> 0]
  /\ score = [r \in R |-> NoScore]

\* No directory is being scanned.
NoDisk == <<>>

InitTypesIdle(R) ==
  /\ typeInfos = [r \in R |-> <<>>]
  /\ typeUsages = [r \in R |-> <<>>]
  /\ typeIssues = [r \in R |-> <<>>]

InitScanIdle(R) ==
  /\ scanFrames = [r \in R |-> <<>>]
  /\ structure = [r \in R |-> <<>>]
  /\ disk = [r \in R |-> NoDisk]
  /\ routeMap = [r \in R |-> <<>>]
  /\ suggestions = [r \in R |-> <<>>]
  /\ InitTypesIdle(R)

InitDFSIdle(R) ==
  /\ circularDependencies = [r \in R |-> <<>>]
  /\ visited = [r \in R |-> {}]
  /\ stack = [r \in R |-> {}]
  /\ frames = [r \in R |-> <<>>]
  /\ rootIdx = [r \in R |-> 1]

InitDeps ==
  /\ pc = [r \in {1} |-> "deps"]
  /\ \E e1, e2 \in Range(TsExtensions) : \E d2 \in Range(FileDirs) :
       LET p1 == MkPath(FileDirs[1], FileStems[1], e1)
           p2 == MkPath(d2, FileStems[2], e2)
       IN  \E i1 \in ImportLists(p1, p2), i2 \in ImportLists(p2, p1) :
             fileData = [r \in {1} |->
               << CreateFileNode(p1, 1, MkAst(TRUE, i1, ExportsOfFile(1), <<>>, <<>>)),
                  ReadmeFile,
                  CreateFileNode(p2, 1, MkAst(TRUE, i2, ExportsOfFile(2), <<>>, <<>>)) >>]
  /\ fileIdx = [r \in {1} |-> 1]
  /\ dependencyMap = [r \in {1} |-> <<>>]
  /\ filePathToModuleName = [r \in {1} |-> <<>>]
  /\ dependencyNodes = [r \in {1} |-> <<>>]
  /\ InitDFSIdle({1})
  /\ InitCompIdle({1})
  /\ InitSolidIdle({1})
  /\ InitScanIdle({1})

NextDeps ==
  \E r \in Runs :
    \/ DepsFile(r)
    \/ DepsDetect(r)
    \/ DfsRoot(r) \/ DfsExplore(r) \/ DfsReturn(r) \/ DetectReturn(r)

SpecDeps == InitDeps /\ [][NextDeps]_vars

(***************************************************************************)
(* Inputs of the cycle detector                                            *)
(***************************************************************************)
\* The largest number of import edges of an adjacency map.
MaxEdges == 4

\* The file paths an adjacency map is built from; two of them share a
\* basename.  The keys of a map are a prefix of this sequence, so the
\* later paths occur as dangling import targets.
GraphPaths ==
  << MkPath(<<"p">>, "a", ".ts"), MkPath(<<"p">>, "b", ".ts"),
     MkPath(<<"q">>, "a", ".ts"), MkPath(<<"p">>, "c", ".ts") >>

\* The Sets of l distinct paths, in every insertion order.
ImportSets(l) == {s \in [1..l -> Range(GraphPaths)] : NoDup(s)}

RECURSIVE AdjacencyMaps(_, _)
\* The maps whose keys are the first k paths and that have at most e edges.
AdjacencyMaps(k, e) ==
  IF k = 0 THEN {<<>>}
  ELSE UNION {
         {Append(m, <<GraphPaths[k], s>>) :
            m \in AdjacencyMaps(k - 1, e - l), s \in ImportSets(l)} :
         l \in 0..(IF e < Len(GraphPaths) THEN e ELSE Len(GraphPaths)) }

\* filePathToModuleName as analyzeDependencies fills it: the basename of each key.
ModuleNames(map) == [i \in DOMAIN map |-> <<map[i][1], Basename(map[i][1])>>]

InitCycle ==
  /\ pc = [r \in {1} |-> "detect"]
  /\ \E k \in 0..Len(GraphPaths) : \E m \in AdjacencyMaps(k, MaxEdges) :
       /\ dependencyMap = [r \in {1} |-> m]
       /\ filePathToModuleName = [r \in {1} |-> ModuleNames(m)]
  /\ fileData = [r \in {1} |-> <<>>]
  /\ fileIdx = [r \in {1} |-> 1]
  /\ dependencyNodes = [r \in {1} |-> <<>>]
  /\ InitDFSIdle({1})
  /\ InitCompIdle({1})
  /\ InitSolidIdle({1})
  /\ InitScanIdle({1})

NextCycle ==
  \E r \in Runs : DfsRoot(r) \/ DfsExplore(r) \/ DfsReturn(r) \/ DetectReturn(r)

SpecCycle == InitCycle /\ [][NextCycle]_vars

(***************************************************************************)
(* The directed graph of an adjacency map                                  *)
(***************************************************************************)
HasEdge(map, a, b) == \E i \in DOMAIN map : map[i][1] = a /\ b \in Range(map[i][2])

KeySet(map) == Range(MapKeys(map))

\* The simple cycles of the graph, each in all its rotations: sequences of
\* distinct keys with an edge between neighbours and from the last to the first.
SimpleCycles(map) ==
  UNION { {c \in [1..l -> KeySet(map)] :
             /\ NoDup(c)
             /\ \A i \in 1..(l - 1) : HasEdge(map, c[i], c[i + 1])
             /\ HasEdge(map, c[l], c[1])} : l \in 1..Len(map) }

Acyclic(map) == SimpleCycles(map) = {}

Rotations(c) ==
  {[i \in DOMAIN c |-> c[((i + k - 1) % Len(c)) + 1]] : k \in 0..(Len(c) - 1)}

\* The graph has exactly one simple cycle, and it has l members.
OneSimpleCycleOfLength(map, l) ==
  \E c \in SimpleCycles(map) : Len(c) = l /\ SimpleCycles(map) = Rotations(c)

LabelsOf(names, c) == [i \in DOMAIN c |-> LabelOf(names, c[i])]

\* Some import of the map is a path that is not a key of the map.
HasDanglingImport(map) ==
  \E i \in DOMAIN map : \E d \in Range(map[i][2]) : ~MapHas(map, d)

\* b can be reached from a along one or more edges.
Reaches(map, a, b) ==
  \E l \in 1..Len(map) : \E w \in [1..(l + 1) -> KeySet(map)] :
     /\ w[1] = a
     /\ w[l + 1] = b
     /\ \A i \in 1..l : HasEdge(map, w[i], w[i + 1])

Detected(r) == pc[r] = "detected"

(***************************************************************************)
(* Properties of the cycle detector                                        *)
(***************************************************************************)
\* C1: for an acyclic adjacency map, dangling import targets included,
\* detectCircularDependencies returns the empty list.
AcyclicYieldsNoRecord ==
  \A r \in Runs :
    (Detected(r) /\ Acyclic(dependencyMap[r])) => circularDependencies[r] = <<>>

\* An acyclic map with a dangling import and a node reached along two
\* paths has been analysed.
AcyclicDetected ==
  \E r \in Runs :
    /\ Detected(r)
    /\ Acyclic(dependencyMap[r])
    /\ HasDanglingImport(dependencyMap[r])
    /\ \E i, j \in DOMAIN dependencyMap[r] :
         i # j /\ Range(dependencyMap[r][i][2]) \cap Range(dependencyMap[r][j][2]) # {}
    /\ circularDependencies[r] = <<>>

\* C2: a graph whose only simple cycle is A -> B -> C -> A, whatever else
\* it contains, yields exactly one record; its cyclePath is the labels of
\* the three members in cycle order (starting at the member the traversal
\* enters first) and its severity is warning.
OneTriangleYieldsOneWarning ==
  \A r \in Runs :
    (Detected(r) /\ OneSimpleCycleOfLength(dependencyMap[r], 3)) =>
       /\ Len(circularDependencies[r]) = 1
       /\ circularDependencies[r][1].severity = "warning"
       /\ \E c \in SimpleCycles(dependencyMap[r]) :
            circularDependencies[r][1].path = LabelsOf(filePathToModuleName[r], c)

\* A triangle that the traversal enters from a node outside the cycle has
\* been analysed.
TriangleEnteredFromOutside ==
  \E r \in Runs :
    /\ Detected(r)
    /\ OneSimpleCycleOfLength(dependencyMap[r], 3)
    /\ \E c \in SimpleCycles(dependencyMap[r]) :
         /\ dependencyMap[r][1][1] \notin Range(c)
         /\ dependencyMap[r][1][2] # <<>>
         /\ dependencyMap[r][1][2][1] \in Range(c)
    /\ Len(circularDependencies[r]) = 1

\* C3: a record is critical exactly when its cyclePath has more than 3
\* members and warning otherwise; a single simple cycle of 4 or more nodes
\* yields a critical record.
SeverityByLength ==
  \A r \in Runs :
    /\ \A i \in DOMAIN circularDependencies[r] :
         LET rec == circularDependencies[r][i]
         IN  /\ rec.severity \in {"warning", "critical"}
             /\ rec.severity = "critical" <=> Len(rec.path) > 3
    /\ (Detected(r) /\ \E l \in 4..Len(GraphPaths) :
                          OneSimpleCycleOfLength(dependencyMap[r], l)) =>
          \E i \in DOMAIN circularDependencies[r] :
             circularDependencies[r][i].severity = "critical"

\* A four-node cycle has been reported as critical and, in another run of
\* the detector, shorter cycles as warnings.
FourCycleCritical ==
  \E r \in Runs :
    /\ Detected(r)
    /\ OneSimpleCycleOfLength(dependencyMap[r], 4)
    /\ \E i \in DOMAIN circularDependencies[r] :
         /\ circularDependencies[r][i].severity = "critical"
         /\ Len(circularDependencies[r][i].path) = 4

\* C5 as stated: every simple cycle of the graph is, up to rotation, the
\* cyclePath of some returned record.
EverySimpleCycleReported ==
  \A r \in Runs :
    Detected(r) =>
      \A c \in SimpleCycles(dependencyMap[r]) :
        \E rot \in Rotations(c) : \E i \in DOMAIN circularDependencies[r] :
          circularDependencies[r][i].path = LabelsOf(filePathToModuleName[r], rot)

\* C5 as amended: for every simple cycle of the graph some returned record
\* is the cyclePath of a simple cycle among files that reach, and are
\* reached from, the members of that cycle; in particular a graph with a
\* cycle never yields the empty list.
EveryCyclicComponentReported ==
  \A r \in Runs :
    Detected(r) =>
      \A c \in SimpleCycles(dependencyMap[r]) :
        \E d \in SimpleCycles(dependencyMap[r]) :
          /\ Reaches(dependencyMap[r], c[1], d[1])
          /\ Reaches(dependencyMap[r], d[1], c[1])
          /\ \E i \in DOMAIN circularDependencies[r] :
               circularDependencies[r][i].path = LabelsOf(filePathToModuleName[r], d)

\* A graph with two simple cycles through the same files has been analysed
\* and only one record was returned.
OverlappingCyclesOneRecord ==
  \E r \in Runs :
    /\ Detected(r)
    /\ \E c, d \in SimpleCycles(dependencyMap[r]) :
         Len(c) # Len(d) /\ Range(d) \subseteq Range(c)
    /\ Len(circularDependencies[r]) = 1

(***************************************************************************)
(* Properties of analyzeDependencies                                       *)
(***************************************************************************)
\* The specifier designates the file: it leads from the importing file's
\* directory to the file, with the file's extension or with none.
Designates(from, spec, to) ==
  /\ spec.kind = "relative"
  /\ PathResolve(Dirname(from.path), spec).dir = to.path.dir
  /\ spec.stem = to.path.stem
  /\ spec.ext \in {"", to.path.ext}

Imports(from, to) ==
  /\ from.ast.ok
  /\ \E i \in DOMAIN from.ast.imports : Designates(from, from.ast.imports[i].source, to)

\* The project consists of two source files that import each other.
TwoFileCycle(files) ==
  /\ Len(TsFiles(files)) = 2
  /\ Imports(TsFiles(files)[1], TsFiles(files)[2])
  /\ Imports(TsFiles(files)[2], TsFiles(files)[1])

\* C4: when file A imports file B and file B imports file A through
\* relative specifiers, with or without extension and for every analyzable
\* extension of the two files, analyzeDependencies returns exactly one
\* CircularDependency record, of severity warning.
TwoFileCycleYieldsOneWarning ==
  \A r \in Runs :
    (Detected(r) /\ TwoFileCycle(fileData[r])) =>
       /\ Len(circularDependencies[r]) = 1
       /\ circularDependencies[r][1].severity = "warning"

(***************************************************************************)
(* analyzeComponents                                                       *)
(***************************************************************************)
RECURSIVE Flatten(_)
Flatten(ss) == IF ss = <<>> THEN <<>> ELSE Head(ss) \o Flatten(Tail(ss))

RECURSIVE IndicesWhere(_, _, _)
\* The indices i >= from of seq, ascending, whose element satisfies Test:
\* Array.prototype.filter, by position.
IndicesWhere(seq, Test(_), from) ==
  IF from > Len(seq) THEN <<>>
  ELSE (IF Test(seq[from]) THEN <<from>> ELSE <<>>) \o IndicesWhere(seq, Test, from + 1)

\* "Get component name"
ComponentName(component) ==
  IF component.type \in {"FunctionDeclaration", "ClassDeclaration", "VariableDeclarator"}
  THEN component.name ELSE ""

\* "Determine component type"
ComponentType(file, componentName) ==
  IF file.metadata.isPage THEN "page"
  ELSE IF file.metadata.isLayout THEN "layout"
  ELSE IF PathIncludesDir(file.path, "hooks") \/ StartsWithUse(componentName) THEN "hook"
  ELSE IF \/ PathIncludesDir(file.path, "utils")
          \/ PathIncludesDir(file.path, "lib")
          \/ PathIncludesDir(file.path, "helpers") THEN "utils"
  ELSE "component"

\* `${file.path}:${componentName}`
ComponentId(filePath, componentName) == [filePath |-> filePath, name |-> componentName]

\* "Create component node"; an empty props list stands for undefined and
\* position (0, 0) for the position that is not assigned yet.
ComponentNode(file, component) ==
  [id |-> ComponentId(file.path, ComponentName(component)),
   label |-> ComponentName(component),
   filePath |-> file.path,
   type |-> ComponentType(file, ComponentName(component)),
   props |-> component.props,
   imports |-> 0,
   exports |-> 0,
   position |-> [x |-> 0, y |-> 0]]

\* The nodes of the components of one file, unnamed components left out.
ComponentNodesOf(file) ==
  LET named == SelectSeq(file.ast.components, LAMBDA c : ComponentName(c) # "")
  IN  [i \in DOMAIN named |-> ComponentNode(file, named[i])]

ImportedNamesOfDeclAnySpecifier(decl) ==
  LET chosen == SelectSeq(decl.specifiers, LAMBDA sp : IsCapitalized(sp.local))
  IN  [i \in DOMAIN chosen |-> chosen[i].local]

\* The local names one import declaration contributes to importedComponents.
ImportedNamesOfDecl(decl) ==
  LET chosen == SelectSeq(decl.specifiers,
                  LAMBDA sp : /\ sp.type \in {"ImportSpecifier", "ImportDefaultSpecifier"}
                              /\ IsCapitalized(sp.local))
  IN  [i \in DOMAIN chosen |-> chosen[i].local]

\* importedComponents: the capitalized local names bound by the import
\* declarations whose source starts with '.'.
ImportedComponents(imports) ==
  Flatten([i \in DOMAIN imports |->
             IF imports[i].source.kind = "relative"
             THEN ImportedNamesOfDecl(imports[i]) ELSE <<>>])

\* One iteration of the first pass.
CompFile(r) ==
  /\ pc[r] = "components"
  /\ fileIdx[r] <= Len(TsFiles(fileData[r]))
  /\ LET file == TsFiles(fileData[r])[fileIdx[r]]
     IN  IF file.ast.ok
         THEN /\ componentNodes' = [componentNodes EXCEPT ![r] = @ \o ComponentNodesOf(file)]
              /\ importMap' = [importMap EXCEPT ![r] =
                                 IF ImportedComponents(file.ast.imports) # <<>>
                                 THEN MapSet(@, file.path, ImportedComponents(file.ast.imports))
                                 ELSE @]
         ELSE UNCHANGED <<componentNodes, importMap>>
  /\ fileIdx' = [fileIdx EXCEPT ![r] = @ + 1]
  /\ UNCHANGED <<pc, fileData, depVars, dfsVars, relationships, solidVars, scanVars>>

IsSelfReferenceNever(sourceComponent, targetComponent) == FALSE

\* "Skip self-references"
IsSelfReference(sourceComponent, targetComponent) ==
  sourceComponent.id = targetComponent.id

\* The <<source index, target index>> pairs of the second pass, in the
\* order the relationships are pushed.
RelationshipPairs(nodes, imap) ==
  Flatten([e \in DOMAIN imap |->
    LET sources == IndicesWhere(nodes, LAMBDA n : n.filePath = imap[e][1], 1)
    IN  Flatten([k \in DOMAIN imap[e][2] |->
          LET targets == IndicesWhere(nodes, LAMBDA n : n.label = imap[e][2][k], 1)
          IN  Flatten([si \in DOMAIN sources |->
                Flatten([ti \in DOMAIN targets |->
                  IF IsSelfReference(nodes[sources[si]], nodes[targets[ti]])
                  THEN <<>>
                  ELSE << <<sources[si], targets[ti]>> >>])])])])

\* `${sourceComponent.id}->${targetComponent.id}`
Relationship(sourceComponent, targetComponent) ==
  [id |-> <<sourceComponent.id, targetComponent.id>>,
   source |-> sourceComponent.id,
   target |-> targetComponent.id]

CountWhere(seq, Test(_)) == Len(SelectSeq(seq, Test))

\* Math.ceil(Math.sqrt(n))
CeilSqrt(n) == CHOOSE k \in 0..n : k * k >= n /\ (k = 0 \/ (k - 1) * (k - 1) < n)

GridSpacing == 150

\* The nodes after the second pass and the grid layout: the import and
\* export counts of the relationships pushed, and the grid position.
FinishedNodes(nodes, pairs) ==
  [i \in DOMAIN nodes |->
     [nodes[i] EXCEPT
        !.imports = @ + CountWhere(pairs, LAMBDA pr : pr[1] = i),
        !.exports = @ + CountWhere(pairs, LAMBDA pr : pr[2] = i),
        !.position = [x |-> ((i - 1) % CeilSqrt(Len(nodes))) * GridSpacing,
                      y |-> ((i - 1) \div CeilSqrt(Len(nodes))) * GridSpacing]]]

\* After the last file: the second pass, the layout and the return.
CompRelate(r) ==
  /\ pc[r] = "components"
  /\ fileIdx[r] > Len(TsFiles(fileData[r]))
  /\ LET pairs == RelationshipPairs(componentNodes[r], importMap[r])
     IN  /\ relationships' = [relationships EXCEPT ![r] =
              [i \in DOMAIN pairs |->
                 Relationship(componentNodes[r][pairs[i][1]], componentNodes[r][pairs[i][2]])]]
         /\ componentNodes' = [componentNodes EXCEPT ![r] = FinishedNodes(@, pairs)]
  /\ pc' = [pc EXCEPT ![r] = "componentsDone"]
  /\ UNCHANGED <<fileData, fileIdx, depVars, dfsVars, importMap, solidVars, scanVars>>

(***************************************************************************)
(* Inputs of analyzeComponents                                             *)
(***************************************************************************)
\* The largest number of import declarations of the first source file.
MaxComponentImports == 2

\* The component declarations a file may hold.
MkComponent(type, name) ==
  [type |-> type, name |-> name, props |-> IF name = "Button" THEN <<"label">> ELSE <<>>]

ComponentLists ==
  { <<>>,
    <<MkComponent("FunctionDeclaration", "Button")>>,
    <<MkComponent("VariableDeclarator", "Card")>>,
    <<MkComponent("FunctionDeclaration", "Button"), MkComponent("ClassDeclaration", "Card")>>,
    <<MkComponent("FunctionDeclaration", "Button"), MkComponent("VariableDeclarator", "Button")>> }

\* The import declarations a file may hold.
ComponentImportChoices ==
  LET here == MkSpecifier("relative", 0, <<>>, "x", "")
      pkg == MkSpecifier("package", 0, <<>>, "ui-kit", "")
  IN  { [source |-> here,
         specifiers |-> <<[type |-> "ImportDefaultSpecifier", local |-> "Button"]>>],
        [source |-> here,
         specifiers |-> <<[type |-> "ImportSpecifier", local |-> "Card"],
                          [type |-> "ImportSpecifier", local |-> "useCard"]>>],
        [source |-> here,
         specifiers |-> <<[type |-> "ImportNamespaceSpecifier", local |-> "Card"]>>],
        [source |-> pkg,
         specifiers |-> <<[type |-> "ImportSpecifier", local |-> "Button"]>>] }

\* import Card from '/src/components/Card'
AbsoluteComponentImport ==
  [source |-> MkSpecifier("absolute", 0, <<"src", "components">>, "Card", ""),
   specifiers |-> <<[type |-> "ImportDefaultSpecifier", local |-> "Card"]>>]

ComponentImportLists(n) == UNION {[1..l -> ComponentImportChoices] : l \in 0..n}

\* The paths of the two source files.
ComponentFilePaths ==
  << MkPath(<<"src", "components">>, "Button", ".tsx"),
     MkPath(<<"src", "pages">>, "index", ".tsx"),
     MkPath(<<"src", "lib">>, "widgets", ".jsx") >>

InitDepsIdle(R) ==
  /\ dependencyMap = [r \in R |-> <<>>]
  /\ filePathToModuleName = [r \in R |-> <<>>]
  /\ dependencyNodes = [r \in R |-> <<>>]

InitComp ==
  /\ pc = [r \in {1} |-> "components"]
  /\ \E p1, p2 \in Range(ComponentFilePaths) :
       /\ p1 # p2
       /\ \E c1, c2 \in ComponentLists :
            \E i1 \in ComponentImportLists(MaxComponentImports),
               i2 \in ComponentImportLists(1) \cup {<<AbsoluteComponentImport>>} :
              fileData = [r \in {1} |->
                << CreateFileNode(p1, 1, MkAst(TRUE, i1, <<>>, c1, <<>>)),
                   ReadmeFile,
                   CreateFileNode(p2, 1, MkAst(TRUE, i2, <<>>, c2, <<>>)) >>]
  /\ fileIdx = [r \in {1} |-> 1]
  /\ InitDepsIdle({1})
  /\ InitDFSIdle({1})
  /\ InitCompIdle({1})
  /\ InitSolidIdle({1})
  /\ InitScanIdle({1})

NextComp == \E r \in Runs : CompFile(r) \/ CompRelate(r)

SpecComp == InitComp /\ [][NextComp]_vars

(***************************************************************************)
(* Properties of analyzeComponents                                         *)
(***************************************************************************)
\* C6: in every graph analyzeComponents produces, the source of each
\* ComponentRelationship differs from its target.
NoSelfEdges ==
  \A r \in Runs : \A i \in DOMAIN relationships[r] :
     relationships[r][i].source # relationships[r][i].target

\* A file that declares Button and imports the name Button has been
\* analysed, and a same-named component of another file became a target.
SelfReferenceSkipped ==
  \E r \in Runs :
    /\ pc[r] = "componentsDone"
    /\ \E e \in DOMAIN importMap[r] : \E n \in DOMAIN componentNodes[r] :
         /\ componentNodes[r][n].filePath = importMap[r][e][1]
         /\ componentNodes[r][n].label \in Range(importMap[r][e][2])
    /\ relationships[r] # <<>>

(***************************************************************************)
(* Names as strings of UTF-16 code units, and their two orders             *)
(***************************************************************************)
\* The code units of the stems and extensions that occur as entry names.
CodeUnits ==
  [n \in {"app", "Button", "notes", "src", "Lib", "node_modules", "ui", "locked",
          "", ".tsx", ".txt", ".md", "project", "pages", "index", "[id]",
          "_app", "api", "hello", "[...slug]", "blog", "page", "(shop)", ".ts"} |->
     CASE n = "app" -> <<97, 112, 112>>
       [] n = "Button" -> <<66, 117, 116, 116, 111, 110>>
       [] n = "notes" -> <<110, 111, 116, 101, 115>>
       [] n = "src" -> <<115, 114, 99>>
       [] n = "Lib" -> <<76, 105, 98>>
       [] n = "node_modules" -> <<110, 111, 100, 101, 95, 109, 111, 100, 117, 108, 101, 115>>
       [] n = "ui" -> <<117, 105>>
       [] n = "locked" -> <<108, 111, 99, 107, 101, 100>>
       [] n = "" -> <<>>
       [] n = ".tsx" -> <<46, 116, 115, 120>>
       [] n = ".txt" -> <<46, 116, 120, 116>>
       [] n = ".md" -> <<46, 109, 100>>
       [] n = "project" -> <<112, 114, 111, 106, 101, 99, 116>>
       [] n = "pages" -> <<112, 97, 103, 101, 115>>
       [] n = "index" -> <<105, 110, 100, 101, 120>>
       [] n = "[id]" -> <<91, 105, 100, 93>>
       [] n = "_app" -> <<95, 97, 112, 112>>
       [] n = "api" -> <<97, 112, 105>>
       [] n = "hello" -> <<104, 101, 108, 108, 111>>
       [] n = "[...slug]" -> <<91, 46, 46, 46, 115, 108, 117, 103, 93>>
       [] n = "blog" -> <<98, 108, 111, 103>>
       [] n = "page" -> <<112, 97, 103, 101>>
       [] n = "(shop)" -> <<40, 115, 104, 111, 112, 41>>
       [] n = ".ts" -> <<46, 116, 115>>]

\* The string of a name: the stem followed by the extension.
NameString(name) == CodeUnits[name.stem] \o CodeUnits[name.ext]

IsUpper(c) == c >= 65 /\ c <= 90

\* The primary collation weight of a code unit: letters compare without
\* regard to case, after punctuation and digits.
PrimaryWeight(c) == IF IsUpper(c) THEN c + 32 ELSE c

\* The first position at which the two mapped strings differ, 0 if none.
FirstDifference(a, b, Weight(_)) ==
  LET n == IF Len(a) < Len(b) THEN Len(a) ELSE Len(b)
      diffs == {i \in 1..n : Weight(a[i]) # Weight(b[i])}
  IN  IF diffs = {} THEN 0 ELSE CHOOSE i \in diffs : \A j \in diffs : i <= j

\* -1, 0 or 1 as a precedes, equals or follows b position by position.
CompareBy(a, b, Weight(_)) ==
  LET d == FirstDifference(a, b, Weight)
  IN  IF d # 0 THEN (IF Weight(a[d]) < Weight(b[d]) THEN -1 ELSE 1)
      ELSE IF Len(a) < Len(b) THEN -1
      ELSE IF Len(a) > Len(b) THEN 1
      ELSE 0

\* Comparison of strings by code units (the order of < on strings).
CodeUnitCompare(a, b) == CompareBy(a, b, LAMBDA c : c)

\* String.prototype.localeCompare: the letters compared regardless of case
\* first; strings that differ only in case are ordered lowercase first.
LocaleCompare(a, b) ==
  IF CompareBy(a, b, PrimaryWeight) # 0 THEN CompareBy(a, b, PrimaryWeight)
  ELSE CompareBy(a, b, LAMBDA c : IF IsUpper(c) THEN 1 ELSE 0)

(***************************************************************************)
(* scanProjectDirectory / buildDirectoryTree                               *)
(***************************************************************************)
IncludeExtensions == {".ts", ".tsx", ".js", ".jsx", ".json", ".md"}

ExcludeDirs == {"node_modules", ".git", "dist", "build", ".next", "out"}

\* path.join(dirPath, entry.name); directory names carry no extension.
JoinPath(dirPath, name) == MkPath(Append(dirPath.dir, dirPath.stem), name.stem, name.ext)

ChildrenCompareUnsorted(a, b) == 0

\* The comparator of node.children.sort: directories first, then names by
\* localeCompare.
ChildrenCompare(a, b) ==
  IF a.type = "directory" /\ b.type = "file" THEN -1
  ELSE IF a.type = "file" /\ b.type = "directory" THEN 1
  ELSE LocaleCompare(NameString(a.name), NameString(b.name))

RECURSIVE InsertChild(_, _)
\* x inserted behind the last element of the sorted seq that does not follow it.
InsertChild(seq, x) ==
  IF seq = <<>> THEN <<x>>
  ELSE IF ChildrenCompare(seq[Len(seq)], x) <= 0 THEN Append(seq, x)
  ELSE Append(InsertChild(SubSeq(seq, 1, Len(seq) - 1), x), seq[Len(seq)])

RECURSIVE SortChildren(_)
\* node.children.sort(...): Array.prototype.sort is stable.
SortChildren(seq) ==
  IF seq = <<>> THEN <<>>
  ELSE InsertChild(SortChildren(SubSeq(seq, 1, Len(seq) - 1)), seq[Len(seq)])

RECURSIVE CountFiles(_)
CountFilesDirect(node) == Len(SelectSeq(node.children, LAMBDA c : c.type = "file"))

\* countFiles
CountFiles(node) ==
  IF node.children = <<>> THEN 0
  ELSE (IF node.children[1].type = "file" THEN 1 ELSE CountFiles(node.children[1]))
       + CountFiles([node EXCEPT !.children = Tail(@)])

\* The rootNode of scanProjectDirectory: it has no metadata.
RootNode(projectRoot) ==
  [name |-> Basename(projectRoot), path |-> projectRoot, type |-> "directory",
   children |-> <<>>, metadata |-> [defined |-> FALSE]]

\* "Create directory node"
DirNode(entry, entryPath) ==
  [name |-> entry.name, path |-> entryPath, type |-> "directory", children |-> <<>>,
   metadata |-> [defined |-> TRUE,
                 isPages |-> entry.name = [stem |-> "pages", ext |-> ""],
                 isApp |-> entry.name = [stem |-> "app", ext |-> ""],
                 isComponents |-> entry.name = [stem |-> "components", ext |-> ""],
                 fileCount |-> -1]]

\* The activation record of buildDirectoryTree(node, dirPath) once readdir
\* has returned the entries of the directory.
ScanFrame(node, dirPath, entries) ==
  [node |-> node, dirPath |-> dirPath, entries |-> entries, next |-> 1]

ProjectRoot == MkPath(<<>>, "project", "")

\* scanProjectDirectory up to the first readdir.
ScanStart(r) ==
  /\ pc[r] = "scan"
  /\ scanFrames[r] = <<>>
  /\ IF disk[r].readable
     THEN /\ scanFrames' = [scanFrames EXCEPT ![r] =
                              <<ScanFrame(RootNode(ProjectRoot), ProjectRoot,
                                          disk[r].entries)>>]
          /\ pc' = [pc EXCEPT ![r] = "scanning"]
     ELSE /\ pc' = [pc EXCEPT ![r] = "scanFailed"]
          /\ UNCHANGED scanFrames
  /\ UNCHANGED <<fileData, fileIdx, depVars, dfsVars, compVars, solidVars, structure, disk,
               reportVars>>

\* One iteration of "Process all entries".
ScanEntry(r) ==
  /\ pc[r] = "scanning"
  /\ scanFrames[r] # <<>>
  /\ LET depth == Len(scanFrames[r])
         top == scanFrames[r][depth]
     IN  /\ top.next <= Len(top.entries)
         /\ LET entry == top.entries[top.next]
                entryPath == JoinPath(top.dirPath, entry.name)
                advanced == [scanFrames[r] EXCEPT ![depth].next = @ + 1]
            IN  IF entry.kind = "directory" /\ entry.name.stem \in ExcludeDirs
                THEN /\ scanFrames' = [scanFrames EXCEPT ![r] = advanced]
                     /\ UNCHANGED pc
                ELSE IF entry.kind = "directory"
                THEN IF entry.readable
                     THEN /\ scanFrames' = [scanFrames EXCEPT ![r] =
                                Append(advanced,
                                       ScanFrame(DirNode(entry, entryPath), entryPath,
                                                 entry.entries))]
                          /\ UNCHANGED pc
                     ELSE /\ scanFrames' = [scanFrames EXCEPT ![r] = <<>>]
                          /\ pc' = [pc EXCEPT ![r] = "scanFailed"]
                ELSE IF entry.kind = "file" /\ entry.name.ext \in IncludeExtensions
                THEN IF entry.readable
                     THEN /\ scanFrames' = [scanFrames EXCEPT ![r] =
                                [advanced EXCEPT ![depth].node.children =
                                   Append(@, CreateFileNode(entryPath, entry.size,
                                                            MkAst(FALSE, <<>>, <<>>, <<>>, <<>>)))]]
                          /\ UNCHANGED pc
                     ELSE /\ scanFrames' = [scanFrames EXCEPT ![r] = <<>>]
                          /\ pc' = [pc EXCEPT ![r] = "scanFailed"]
                ELSE /\ scanFrames' = [scanFrames EXCEPT ![r] = advanced]
                     /\ UNCHANGED pc
  /\ UNCHANGED <<fileData, fileIdx, depVars, dfsVars, compVars, solidVars, structure, disk,
               reportVars>>

\* The end of buildDirectoryTree: sort the children and return; the caller
\* adds the file count and pushes the directory node.
ScanReturn(r) ==
  /\ pc[r] = "scanning"
  /\ scanFrames[r] # <<>>
  /\ LET depth == Len(scanFrames[r])
         top == scanFrames[r][depth]
         sorted == [top.node EXCEPT !.children = SortChildren(@)]
     IN  /\ top.next > Len(top.entries)
         /\ IF depth = 1
            THEN /\ structure' = [structure EXCEPT ![r] = <<sorted>>]
                 /\ scanFrames' = [scanFrames EXCEPT ![r] = <<>>]
                 /\ pc' = [pc EXCEPT ![r] = "scanned"]
            ELSE /\ scanFrames' = [scanFrames EXCEPT ![r] =
                       [SubSeq(@, 1, depth - 1) EXCEPT ![depth - 1].node.children =
                          Append(@, [sorted EXCEPT !.metadata.fileCount = CountFiles(sorted)])]]
                 /\ UNCHANGED <<pc, structure>>
  /\ UNCHANGED <<fileData, fileIdx, depVars, dfsVars, compVars, solidVars, disk, reportVars>>

(***************************************************************************)
(* Inputs of the scanner: the directory on disk                            *)
(***************************************************************************)
\* The largest number of entries of the project root.
MaxEntries == 3

DiskFile(stem, ext) ==
  [name |-> [stem |-> stem, ext |-> ext], kind |-> "file", readable |-> TRUE,
   size |-> 1, entries |-> <<>>]

DiskDir(stem, readable, entries) ==
  [name |-> [stem |-> stem, ext |-> ""], kind |-> "directory", readable |-> readable,
   size |-> 0, entries |-> entries]

\* A file for which fs.promises.stat rejects.
UnreadableFile == [DiskFile("notes", ".md") EXCEPT !.readable = FALSE]

DiskFiles ==
  {DiskFile("app", ".tsx"), DiskFile("Button", ".tsx"), DiskFile("notes", ".txt"),
   UnreadableFile}

\* The sequences of at most n distinct members of S: a directory listing
\* in the order readdir returns it.
Listings(S, n) == UNION {{l \in [1..k -> S] : NoDup(l)} : k \in 0..n}

\* The directories below the root: each holds up to two files and
\* possibly a subdirectory.
SubDirs ==
  {DiskDir("src", TRUE, l) :
     l \in Listings({DiskFile("app", ".tsx"), DiskFile("Button", ".tsx"),
                     DiskDir("ui", TRUE, <<DiskFile("app", ".tsx")>>)}, 2)}
  \cup {DiskDir("Lib", TRUE, <<DiskFile("Button", ".tsx")>>),
        DiskDir("node_modules", TRUE, <<DiskFile("app", ".tsx")>>),
        DiskDir("locked", FALSE, <<>>)}

\* The listings of the root: distinct names, at most MaxEntries of them.
RootListings ==
  {l \in Listings(DiskFiles \cup SubDirs, MaxEntries) :
     \A i, j \in DOMAIN l : i # j => l[i].name # l[j].name}

InitScan ==
  /\ pc = [r \in {1} |-> "scan"]
  /\ \E l \in RootListings : disk = [r \in {1} |-> DiskDir("project", TRUE, l)]
  /\ fileData = [r \in {1} |-> <<>>]
  /\ fileIdx = [r \in {1} |-> 1]
  /\ InitDepsIdle({1})
  /\ InitDFSIdle({1})
  /\ InitCompIdle({1})
  /\ InitSolidIdle({1})
  /\ scanFrames = [r \in {1} |-> <<>>]
  /\ structure = [r \in {1} |-> <<>>]
  /\ routeMap = [r \in {1} |-> <<>>]
  /\ suggestions = [r \in {1} |-> <<>>]
  /\ InitTypesIdle({1})

NextScan == \E r \in Runs : ScanStart(r) \/ ScanEntry(r) \/ ScanReturn(r)

SpecScan == InitScan /\ [][NextScan]_vars

(***************************************************************************)
(* Properties of the scanner                                               *)
(***************************************************************************)
RECURSIVE DirectoryNodes(_)
\* The directory nodes of a tree, the root included.
DirectoryNodes(node) ==
  {node} \cup UNION {DirectoryNodes(node.children[i]) :
                       i \in {j \in DOMAIN node.children : node.children[j].type = "directory"}}

\* The children are ordered directories first and, within directories and
\* within files, by the comparison Compare of their names.
ChildrenOrdered(node, Compare(_, _)) ==
  \A i, j \in DOMAIN node.children :
    i < j =>
      LET a == node.children[i]
          b == node.children[j]
      IN  /\ ~(a.type = "file" /\ b.type = "directory")
          /\ a.type = b.type => Compare(NameString(a.name), NameString(b.name)) <= 0

Scanned(r) == pc[r] = "scanned"

\* C7 as stated: the children of every directory node of the returned
\* tree are ordered directories first, then lexicographically (by code
\* units) by name.
ChildrenSortedLexicographically ==
  \A r \in Runs :
    Scanned(r) => \A d \in DirectoryNodes(structure[r][1]) :
                     ChildrenOrdered(d, CodeUnitCompare)

\* C7 as amended: the children of every directory node of the returned
\* tree are ordered directories first, then by localeCompare of the names
\* (letters regardless of case, lowercase first among equal letters).
ChildrenSortedByLocale ==
  \A r \in Runs :
    Scanned(r) => \A d \in DirectoryNodes(structure[r][1]) :
                     ChildrenOrdered(d, LocaleCompare)

\* A tree has been returned whose root listing came back from readdir out
\* of order, a file before a directory, and whose subdirectory holds two
\* files that readdir listed in descending order.
UnorderedListingScanned ==
  \E r \in Runs :
    /\ Scanned(r)
    /\ Len(disk[r].entries) >= 2
    /\ disk[r].entries[1].kind = "file"
    /\ \E i \in DOMAIN disk[r].entries :
         LET e == disk[r].entries[i]
         IN  /\ e.kind = "directory"
             /\ Len(e.entries) = 2
             /\ e.entries[1].kind = "file" /\ e.entries[2].kind = "file"
             /\ LocaleCompare(NameString(e.entries[1].name),
                              NameString(e.entries[2].name)) > 0
    /\ \E d \in DirectoryNodes(structure[r][1]) :
         d.metadata.defined /\ Len(d.children) = 2

(***************************************************************************)
(* calculateScores                                                         *)
(*                                                                         *)
(* A score is a rational number, held as a record [num, den] with den > 0. *)
(***************************************************************************)
Rat(num, den) == [num |-> num, den |-> den]

RatMax(a, b) == IF a.num * b.den >= b.num * a.den THEN a ELSE b

RatEq(a, b) == a.num * b.den = b.num * a.den

RatLeq(a, b) == a.num * b.den <= b.num * a.den

\* Math.log10 of the file counts of the model; log10(0) is -Infinity, held
\* as a number below every other; the other logarithms are rounded to six
\* decimals.
Log10(n) ==
  CASE n = 0 -> Rat(-1000000, 1)
    [] n = 1 -> Rat(0, 1)
    [] n = 2 -> Rat(301030, 1000000)
    [] n = 3 -> Rat(477121, 1000000)
    [] n = 10 -> Rat(1, 1)
    [] n = 11 -> Rat(1041393, 1000000)
    [] n = 100 -> Rat(2, 1)

Principles == <<"SRP", "OCP", "LSP", "ISP", "DIP">>

Severities == <<"info", "warning", "critical">>

\* counts[principle][severity] after the loop over the issues.
IssueCounts(issueList) ==
  [p \in Range(Principles) |->
     [v \in Range(Severities) |->
        CountWhere(issueList, LAMBDA i : i.principle = p /\ i.severity = v)]]

PenaltyInfo == 1
PenaltyWarning == 3
PenaltyCritical == 10
BaseScore == 100

\* Math.max(1, Math.log10(totalFiles))
NormalizationFactor(totalFiles) == RatMax(Rat(1, 1), Log10(totalFiles))

\* calculatePenalty
CalculatePenalty(counts, totalFiles) ==
  LET weighted == counts["info"] * PenaltyInfo + counts["warning"] * PenaltyWarning
                  + counts["critical"] * PenaltyCritical
      factor == NormalizationFactor(totalFiles)
  IN  Rat(weighted * factor.den, factor.num)

PrincipleScoreNoFloor(counts, totalFiles) ==
  LET penalty == CalculatePenalty(counts, totalFiles)
  IN  Rat(BaseScore * penalty.den - penalty.num, penalty.den)

\* Math.max(0, baseScore - calculatePenalty(counts, totalFiles, penalties))
PrincipleScore(counts, totalFiles) ==
  LET penalty == CalculatePenalty(counts, totalFiles)
  IN  RatMax(Rat(0, 1), Rat(BaseScore * penalty.den - penalty.num, penalty.den))

\* Math.round(x) for the rational x: the nearest integer, halves upwards.
\* (\div rounds towards minus infinity.)
RoundRat(x) == (2 * x.num + x.den) \div (2 * x.den)

RECURSIVE Gcd(_, _)
Gcd(a, b) == IF b = 0 THEN a ELSE Gcd(b, a % b)

\* a + b over the least common denominator
RatAdd(a, b) ==
  LET g == Gcd(a.den, b.den)
  IN  Rat(a.num * (b.den \div g) + b.num * (a.den \div g), (a.den \div g) * b.den)

RatSum5(a, b, c, d, e) == RatAdd(RatAdd(RatAdd(RatAdd(a, b), c), d), e)

CountsOfFirstPrinciple(issueList, principle) == IssueCounts(issueList)["SRP"]

\* counts.srp, counts.ocp, ...: the counts of one principle
CountsOf(issueList, principle) == IssueCounts(issueList)[principle]

\* calculateScores(issues, totalFiles)
CalculateScores(issueList, totalFiles) ==
  LET srp == PrincipleScore(CountsOf(issueList, "SRP"), totalFiles)
      ocp == PrincipleScore(CountsOf(issueList, "OCP"), totalFiles)
      lsp == PrincipleScore(CountsOf(issueList, "LSP"), totalFiles)
      isp == PrincipleScore(CountsOf(issueList, "ISP"), totalFiles)
      dip == PrincipleScore(CountsOf(issueList, "DIP"), totalFiles)
      sum == RatSum5(srp, ocp, lsp, isp, dip)
  IN  [srp |-> srp, ocp |-> ocp, lsp |-> lsp, isp |-> isp, dip |-> dip,
       overall |-> RoundRat(Rat(sum.num, sum.den * 5))]

\* const scores = calculateScores(issues, totalFiles)
DoCalculateScores(r) ==
  /\ pc[r] = "score"
  /\ score' = [score EXCEPT ![r] = CalculateScores(issues[r], filesAnalyzed[r])]
  /\ pc' = [pc EXCEPT ![r] = "scored"]
  /\ UNCHANGED <<fileData, fileIdx, depVars, dfsVars, compVars, issues, totalComponents,
                 filesAnalyzed, scanVars>>

(***************************************************************************)
(* analyzeSolid                                                            *)
(*                                                                         *)
(* A component carries what the traversals of its body find: its          *)
(* locations (<<>> when absent, else <<[start, end]>>), the three concerns *)
(* of hasMixedConcerns, and the counts of the other helpers.  A type       *)
(* definition carries its extends list and its members.                    *)
(***************************************************************************)
SizeOf(location) == location[1].end - location[1].start + 1

DefaultComponentSize == 50

GetComponentSizeAsSpan(component) ==
  IF component.type \in {"FunctionDeclaration", "ArrowFunctionExpression",
                         "FunctionExpression"} /\ component.loc # <<>>
  THEN SizeOf(component.loc) - 1
  ELSE IF component.type = "ClassDeclaration" /\ component.bodyLoc # <<>>
  THEN SizeOf(component.bodyLoc) - 1
  ELSE IF component.type = "VariableDeclarator" /\ component.initLoc # <<>>
  THEN SizeOf(component.initLoc) - 1
  ELSE DefaultComponentSize

\* getComponentSize
GetComponentSize(component) ==
  IF /\ component.type \in {"FunctionDeclaration", "ArrowFunctionExpression",
                            "FunctionExpression"}
     /\ component.loc # <<>>
  THEN SizeOf(component.loc)
  ELSE IF component.type = "ClassDeclaration" /\ component.bodyLoc # <<>>
  THEN SizeOf(component.bodyLoc)
  ELSE IF component.type = "VariableDeclarator" /\ component.initLoc # <<>>
  THEN SizeOf(component.initLoc)
  ELSE DefaultComponentSize

\* hasMixedConcerns: at least two of the three concerns
HasMixedConcerns(component) ==
  \/ component.apiCalls /\ component.stateManagement
  \/ component.apiCalls /\ component.complexLogic
  \/ component.stateManagement /\ component.complexLogic

ExcessiveThreshold == 5

\* hasExcessiveConditionals
HasExcessiveConditionals(component) == component.conditionalCount > ExcessiveThreshold

HardcodedThreshold == 3

\* hasHardcodedValues
HasHardcodedValues(component) == component.hardcodedValueCount > HardcodedThreshold

\* hasDirectExternalDependencies
HasDirectExternalDependencies(component) == component.directDependency

MaxImportCount == 5
MaxDirectReferenceCount == 7

\* hasTightCoupling
HasTightCoupling(component) ==
  component.importCount > MaxImportCount
    \/ component.directReferenceCount > MaxDirectReferenceCount

MaxMethodParameters == 2

\* hasLSPViolation
HasLSPViolation(typeDefinition) ==
  /\ typeDefinition.extends # <<>>
  /\ \E i \in DOMAIN typeDefinition.members :
       /\ typeDefinition.members[i].type = "TSMethodSignature"
       /\ typeDefinition.members[i].parameters > MaxMethodParameters

\* The words of the three naming patterns that occur in a member's key.
WordsIn(key) ==
  CASE key = "color" -> {"color"}
    [] key = "size" -> {"size"}
    [] key = "data" -> {"data"}
    [] key = "value" -> {"value"}
    [] key = "onClick" -> {"on"}
    [] key = "icon" -> {"on"}
    [] key = "dataHandler" -> {"data", "handler"}
    [] OTHER -> {}

UiWords == {"style", "class", "color", "size", "width", "height"}
DataWords == {"data", "value", "item", "list"}
EventWords == {"on", "handler", "callback"}

SmallInterfaceSize == 5
SignificantGroupSize == 2

HasUnrelatedPropsOfAnySize(typeDefinition) ==
  LET properties == typeDefinition.members
      uiProps == CountWhere(properties, LAMBDA m : WordsIn(m.key) \cap UiWords # {})
      dataProps == CountWhere(properties, LAMBDA m : WordsIn(m.key) \cap DataWords # {})
      eventProps == CountWhere(properties, LAMBDA m : WordsIn(m.key) \cap EventWords # {})
  IN  \/ uiProps >= SignificantGroupSize /\ dataProps >= SignificantGroupSize
      \/ uiProps >= SignificantGroupSize /\ eventProps >= SignificantGroupSize
      \/ dataProps >= SignificantGroupSize /\ eventProps >= SignificantGroupSize

\* hasUnrelatedProps
HasUnrelatedProps(typeDefinition) ==
  LET properties == typeDefinition.members
      uiProps == CountWhere(properties, LAMBDA m : WordsIn(m.key) \cap UiWords # {})
      dataProps == CountWhere(properties, LAMBDA m : WordsIn(m.key) \cap DataWords # {})
      eventProps == CountWhere(properties, LAMBDA m : WordsIn(m.key) \cap EventWords # {})
  IN  /\ Len(properties) > SmallInterfaceSize
      /\ \/ uiProps >= SignificantGroupSize /\ dataProps >= SignificantGroupSize
         \/ uiProps >= SignificantGroupSize /\ eventProps >= SignificantGroupSize
         \/ dataProps >= SignificantGroupSize /\ eventProps >= SignificantGroupSize

\* component.id?.name || 'UnnamedComponent'
SolidComponentName(component) ==
  IF component.name = "" THEN "UnnamedComponent" ELSE component.name

\* `${rule}-${file.path}-${name}` with the principle and severity of the rule
SolidIssue(rule, principle, severity, file, name) ==
  [id |-> [rule |-> rule, filePath |-> file.path, name |-> name],
   principle |-> principle, severity |-> severity, filePath |-> file.path]

LargeComponentSize == 200
MediumComponentSize == 100

\* analyzeSRP
AnalyzeSRP(file, components) ==
  Flatten([i \in DOMAIN components |->
    LET name == SolidComponentName(components[i])
        size == GetComponentSize(components[i])
    IN  (IF size > LargeComponentSize
         THEN <<SolidIssue("srp-large-component", "SRP", "critical", file, name)>>
         ELSE IF size > MediumComponentSize
         THEN <<SolidIssue("srp-medium-component", "SRP", "warning", file, name)>>
         ELSE <<>>)
        \o (IF HasMixedConcerns(components[i])
            THEN <<SolidIssue("srp-mixed-concerns", "SRP", "warning", file, name)>>
            ELSE <<>>)])

\* analyzeOCP
AnalyzeOCP(file, components) ==
  Flatten([i \in DOMAIN components |->
    LET name == SolidComponentName(components[i])
    IN  (IF HasExcessiveConditionals(components[i])
         THEN <<SolidIssue("ocp-excessive-conditionals", "OCP", "warning", file, name)>>
         ELSE <<>>)
        \o (IF HasHardcodedValues(components[i])
            THEN <<SolidIssue("ocp-hardcoded-values", "OCP", "info", file, name)>>
            ELSE <<>>)])

\* analyzeLSP
AnalyzeLSP(file, typeDefinitions) ==
  Flatten([i \in DOMAIN typeDefinitions |->
    IF /\ typeDefinitions[i].type = "TSInterfaceDeclaration"
       /\ typeDefinitions[i].extends # <<>>
       /\ HasLSPViolation(typeDefinitions[i])
    THEN <<SolidIssue("lsp-interface-violation", "LSP", "warning", file,
                      typeDefinitions[i].name)>>
    ELSE <<>>])

LargeInterfaceSize == 10

\* analyzeISP
AnalyzeISP(file, typeDefinitions) ==
  Flatten([i \in DOMAIN typeDefinitions |->
    IF typeDefinitions[i].type = "TSInterfaceDeclaration"
    THEN (IF Len(typeDefinitions[i].members) > LargeInterfaceSize
          THEN <<SolidIssue("isp-large-interface", "ISP", "warning", file,
                            typeDefinitions[i].name)>>
          ELSE <<>>)
         \o (IF HasUnrelatedProps(typeDefinitions[i])
             THEN <<SolidIssue("isp-unrelated-props", "ISP", "info", file,
                               typeDefinitions[i].name)>>
             ELSE <<>>)
    ELSE <<>>])

\* analyzeDIP
AnalyzeDIP(file, components) ==
  Flatten([i \in DOMAIN components |->
    LET name == SolidComponentName(components[i])
    IN  (IF HasDirectExternalDependencies(components[i])
         THEN <<SolidIssue("dip-direct-dependencies", "DIP", "warning", file, name)>>
         ELSE <<>>)
        \o (IF HasTightCoupling(components[i])
            THEN <<SolidIssue("dip-tight-coupling", "DIP", "warning", file, name)>>
            ELSE <<>>)])

\* The issues one file contributes, in the order they are pushed.
IssuesOfFile(file) ==
  AnalyzeSRP(file, file.ast.components) \o AnalyzeOCP(file, file.ast.components)
    \o AnalyzeLSP(file, file.ast.types) \o AnalyzeISP(file, file.ast.types)
    \o AnalyzeDIP(file, file.ast.components)

IssuesOfFirstRun(r) == issues[1]

\* const issues: SolidIssue[] = [] is local to the invocation: the list an
\* invocation pushes to is its own.
IssuesOfRun(r) == issues[r]

\* One iteration of the loop over the files; a file that fails to parse is
\* skipped.
SolidFile(r) ==
  /\ pc[r] = "solid"
  /\ fileIdx[r] <= Len(TsFiles(fileData[r]))
  /\ LET file == TsFiles(fileData[r])[fileIdx[r]]
     IN  IF file.ast.ok
         THEN /\ totalComponents' = [totalComponents EXCEPT ![r] =
                                       @ + Len(file.ast.components)]
              /\ issues' = [issues EXCEPT ![r] = IssuesOfRun(r) \o IssuesOfFile(file)]
         ELSE UNCHANGED <<issues, totalComponents>>
  /\ fileIdx' = [fileIdx EXCEPT ![r] = @ + 1]
  /\ UNCHANGED <<pc, fileData, depVars, dfsVars, compVars, filesAnalyzed, score, scanVars>>

\* After the last file: calculateScores(issues, tsFiles.length) and the
\* report.
SolidReturn(r) ==
  /\ pc[r] = "solid"
  /\ fileIdx[r] > Len(TsFiles(fileData[r]))
  /\ score' = [score EXCEPT ![r] =
                 CalculateScores(issues[r], Len(TsFiles(fileData[r])))]
  /\ filesAnalyzed' = [filesAnalyzed EXCEPT ![r] = Len(TsFiles(fileData[r]))]
  /\ pc' = [pc EXCEPT ![r] = "solidDone"]
  /\ UNCHANGED <<fileData, fileIdx, depVars, dfsVars, compVars, issues, totalComponents,
                 scanVars>>

(***************************************************************************)
(* Inputs of calculateScores                                               *)
(***************************************************************************)
\* The largest number of consecutive issues of one principle and severity.
MaxRun == 11

\* The file counts: none, one, ten, and counts whose log10 exceeds 1.
FileCounts == {0, 1, 10, 11, 100}

MkIssue(principle, severity) ==
  [id |-> <<principle, severity>>, principle |-> principle, severity |-> severity]

IssueRuns(lengths) ==
  {[i \in 1..n |-> MkIssue(p, v)] :
     n \in lengths, p \in Range(Principles), v \in Range(Severities)}

\* The issue lists: a run of equal issues followed by a short run of
\* other issues.
IssueLists == {a \o b : a \in IssueRuns(0..MaxRun), b \in IssueRuns(0..2)}

InitScore ==
  /\ pc = [r \in {1} |-> "score"]
  /\ \E l \in IssueLists : issues = [r \in {1} |-> l]
  /\ \E n \in FileCounts : filesAnalyzed = [r \in {1} |-> n]
  /\ totalComponents = [r \in {1} |-> 0]
  /\ score = [r \in {1} |-> NoScore]
  /\ fileData = [r \in {1} |-> <<>>]
  /\ fileIdx = [r \in {1} |-> 1]
  /\ InitDepsIdle({1})
  /\ InitDFSIdle({1})
  /\ InitCompIdle({1})
  /\ InitScanIdle({1})

NextScore == \E r \in Runs : DoCalculateScores(r)

SpecScore == InitScore /\ [][NextScore]_vars

(***************************************************************************)
(* Properties of calculateScores                                           *)
(***************************************************************************)
Scored(r) == pc[r] = "scored"

PrincipleScoresOf(sc) == <<sc.srp, sc.ocp, sc.lsp, sc.isp, sc.dip>>

InRange(x) == RatLeq(Rat(0, 1), x) /\ RatLeq(x, Rat(100, 1))

\* C8: each of the six values calculateScores returns lies in [0,100], for
\* every issue list and file count (0 and 1 included); with no issues all
\* five principle scores and overall are 100.
ScoresInRange ==
  \A r \in Runs :
    Scored(r) =>
      /\ \A i \in 1..5 : InRange(PrincipleScoresOf(score[r])[i])
      /\ score[r].overall >= 0 /\ score[r].overall <= 100
      /\ issues[r] = <<>> =>
           /\ \A i \in 1..5 : RatEq(PrincipleScoresOf(score[r])[i], Rat(100, 1))
           /\ score[r].overall = 100

\* Scores have been calculated for no files where one principle collected
\* a penalty above 100 and was floored at 0.
ScoreFlooredAtZero ==
  \E r \in Runs :
    /\ Scored(r)
    /\ filesAnalyzed[r] = 0
    /\ Len(issues[r]) > 10
    /\ \E i \in 1..5 : RatEq(PrincipleScoresOf(score[r])[i], Rat(0, 1))
    /\ score[r].overall = 80

\* 1*info + 3*warning + 10*critical over the issues of one principle
WeightedIssues(issueList, p) ==
  CountWhere(issueList, LAMBDA i : i.principle = p /\ i.severity = "info")
  + 3 * CountWhere(issueList, LAMBDA i : i.principle = p /\ i.severity = "warning")
  + 10 * CountWhere(issueList, LAMBDA i : i.principle = p /\ i.severity = "critical")

ExpectedScore(issueList, p) == Max(0, 100 - WeightedIssues(issueList, p))

\* The integer nearest to total / 5.
NearestToFifth(total, n) == 2 * (5 * n - total) <= 5 /\ 2 * (total - 5 * n) <= 5

CompStart(r) ==
  /\ pc[r] = "detected"
  /\ componentNodes' = [componentNodes EXCEPT ![r] = <<>>]
  /\ relationships' = [relationships EXCEPT ![r] = <<>>]
  /\ importMap' = [importMap EXCEPT ![r] = <<>>]
  /\ fileIdx' = [fileIdx EXCEPT ![r] = 1]
  /\ pc' = [pc EXCEPT ![r] = "components"]
  /\ UNCHANGED <<fileData, depVars, dfsVars, solidVars, scanVars>>

\* analyzeSolid(fileData) is called: its issue list starts empty and its
\* component count at 0.
SolidStart(r) ==
  /\ pc[r] = "componentsDone"
  /\ issues' = [issues EXCEPT ![r] = <<>>]
  /\ totalComponents' = [totalComponents EXCEPT ![r] = 0]
  /\ fileIdx' = [fileIdx EXCEPT ![r] = 1]
  /\ pc' = [pc EXCEPT ![r] = "solid"]
  /\ UNCHANGED <<fileData, depVars, dfsVars, compVars, filesAnalyzed, score, scanVars>>

At(start, end) == <<[start |-> start, end |-> end]>>

MkSolidComponent(type, name, location, concerns, counts) ==
  [type |-> type, name |-> name, props |-> <<>>,
   loc |-> location, bodyLoc |-> location, initLoc |-> location,
   apiCalls |-> "api" \in concerns, stateManagement |-> "state" \in concerns,
   complexLogic |-> "logic" \in concerns, directDependency |-> "api" \in concerns,
   conditionalCount |-> counts[1], hardcodedValueCount |-> counts[2],
   importCount |-> counts[3], directReferenceCount |-> counts[4]]

MkMember(type, key, parameters) == [type |-> type, key |-> key, parameters |-> parameters]

\* An interface of eleven members that extends another, has a method of
\* three parameters and mixes styling and data properties.
WideInterface ==
  [type |-> "TSInterfaceDeclaration", name |-> "CardProps", extends |-> <<"BaseProps">>,
   members |-> <<MkMember("TSPropertySignature", "color", 0),
                 MkMember("TSPropertySignature", "size", 0),
                 MkMember("TSPropertySignature", "data", 0),
                 MkMember("TSPropertySignature", "value", 0),
                 MkMember("TSMethodSignature", "onClick", 3),
                 MkMember("TSPropertySignature", "id", 0),
                 MkMember("TSPropertySignature", "title", 0),
                 MkMember("TSPropertySignature", "icon", 0),
                 MkMember("TSPropertySignature", "label", 0),
                 MkMember("TSPropertySignature", "kind", 0),
                 MkMember("TSPropertySignature", "key", 0)>>]

\* What a file of the given stem may declare: <<parses, components, types>>.
FileBodies(stem) ==
  { <<TRUE, <<>>, <<>> >>,
    <<FALSE, <<>>, <<>> >>,
    <<TRUE, <<MkSolidComponent("FunctionDeclaration", stem, At(1, 250),
                               {"api", "state"}, <<0, 0, 0, 0>>)>>, <<>> >>,
    <<TRUE, <<MkSolidComponent("VariableDeclarator", stem, At(10, 159),
                               {"logic"}, <<6, 4, 6, 8>>),
              MkSolidComponent("ClassDeclaration", "", <<>>, {}, <<0, 4, 0, 0>>)>>, <<>> >>,
    <<TRUE, <<MkSolidComponent("FunctionDeclaration", stem, At(1, 20), {}, <<1, 1, 1, 1>>)>>,
            <<WideInterface>> >> }

PipelinePaths == <<MkPath(<<"src">>, "Button", ".ts"), MkPath(<<"src">>, "Card", ".ts")>>

\* The import lists of a file: none, or the other file by its default export.
PipelineImports(from, other) ==
  { <<>>,
    <<[source |-> RelativeSpecifier(from, other, FALSE),
       specifiers |-> <<[type |-> "ImportDefaultSpecifier", local |-> other.stem]>>]>> }

PipelineFiles(from, other) ==
  {CreateFileNode(from, 1, MkAst(b[1], i, <<>>, b[2], b[3])) :
     b \in FileBodies(from.stem), i \in PipelineImports(from, other)}

PipelineRuns == {1, 2}

InitPipeline ==
  /\ pc = [r \in PipelineRuns |-> "deps"]
  /\ \E f1 \in PipelineFiles(PipelinePaths[1], PipelinePaths[2]),
        f2 \in PipelineFiles(PipelinePaths[2], PipelinePaths[1]) :
       fileData = [r \in PipelineRuns |-> <<f1, ReadmeFile, f2>>]
  /\ fileIdx = [r \in PipelineRuns |-> 1]
  /\ InitDepsIdle(PipelineRuns)
  /\ InitDFSIdle(PipelineRuns)
  /\ InitCompIdle(PipelineRuns)
  /\ InitSolidIdle(PipelineRuns)
  /\ InitScanIdle(PipelineRuns)

NextPipeline ==
  \E r \in Runs :
    \/ DepsFile(r) \/ DepsDetect(r)
    \/ DfsRoot(r) \/ DfsExplore(r) \/ DfsReturn(r) \/ DetectReturn(r)
    \/ CompStart(r) \/ CompFile(r) \/ CompRelate(r)
    \/ SolidStart(r) \/ SolidFile(r) \/ SolidReturn(r)

SpecPipeline == InitPipeline /\ [][NextPipeline]_vars

(***************************************************************************)
(* Properties of repeated analysis                                         *)
(***************************************************************************)
\* The phases of an invocation, in the order it passes through them.
Phases == <<"deps", "detect", "detected", "components", "componentsDone", "solid",
            "solidDone">>

PhaseOf(r) == CHOOSE i \in DOMAIN Phases : Phases[i] = pc[r]

\* Run r has left the phase named.
Past(r, phase) == PhaseOf(r) > (CHOOSE i \in DOMAIN Phases : Phases[i] = phase)

IdsOf(seq) == [i \in DOMAIN seq |-> seq[i].id]

Slash == 47
Dot == 46
Colon == 58
Star == 42
QuestionMark == 63
LeftBracket == 91
RightBracket == 93
LeftParen == 40
RightParen == 41
Underscore == 95

\* s.startsWith(prefix)
StartsWith(s, prefix) ==
  Len(prefix) <= Len(s) /\ SubSeq(s, 1, Len(prefix)) = prefix

\* s.endsWith(suffix)
EndsWith(s, suffix) ==
  Len(suffix) <= Len(s) /\ SubSeq(s, Len(s) - Len(suffix) + 1, Len(s)) = suffix

\* s.includes(part)
Includes(s, part) ==
  \E i \in 1..(Len(s) + 1) : StartsWith(SubSeq(s, i, Len(s)), part)

\* s.slice(from, -fromEnd)
Slice(s, from, fromEnd) == SubSeq(s, from + 1, Len(s) - fromEnd)

RECURSIVE Split(_, _)
\* s.split(sep) for a separator of one code unit
Split(s, sep) ==
  IF \A i \in DOMAIN s : s[i] # sep THEN <<s>>
  ELSE LET k == CHOOSE i \in DOMAIN s : s[i] = sep /\ \A j \in 1..(i - 1) : s[j] # sep
       IN  <<SubSeq(s, 1, k - 1)>> \o Split(SubSeq(s, k + 1, Len(s)), sep)

RECURSIVE Join(_, _)
\* segments.join(sep)
Join(segments, sep) ==
  IF segments = <<>> THEN <<>>
  ELSE IF Len(segments) = 1 THEN segments[1]
  ELSE segments[1] \o <<sep>> \o Join(Tail(segments), sep)

\* path.join(basePath, name) for a name without separators
PathJoin(basePath, name) == IF basePath = <<>> THEN name ELSE basePath \o <<Slash>> \o name

(***************************************************************************)
(* analyzeRoutes                                                           *)
(***************************************************************************)
RECURSIVE FindDirectoryIn(_, _)
\* findDirectory: <<>> for null, else <<node>>; FindDirectoryIn searches the
\* directories of a list of children in order.
FindDirectory(node, name) ==
  IF NameString(node.name) = name THEN <<node>> ELSE FindDirectoryIn(node.children, name)

FindDirectoryIn(children, name) ==
  IF children = <<>> THEN <<>>
  ELSE IF children[1].type = "directory" /\ FindDirectory(children[1], name) # <<>>
  THEN FindDirectory(children[1], name)
  ELSE FindDirectoryIn(Tail(children), name)

PageExtensions == {".js", ".jsx", ".ts", ".tsx"}

\* The callback of segments.map in processPageDirectory: the processed
\* segment and the parameter it pushes, if any.
PageSegment(segment) ==
  IF StartsWith(segment, <<LeftBracket, Dot, Dot, Dot>>) /\ EndsWith(segment, <<RightBracket>>)
  THEN [out |-> <<Star>>, params |-> <<Slice(segment, 4, 1)>>]
  ELSE IF /\ StartsWith(segment, <<LeftBracket, LeftBracket, Dot, Dot, Dot>>)
          /\ EndsWith(segment, <<RightBracket, RightBracket>>)
  THEN [out |-> <<Star, QuestionMark>>, params |-> <<Slice(segment, 5, 2)>>]
  ELSE IF StartsWith(segment, <<LeftBracket>>) /\ EndsWith(segment, <<RightBracket>>)
  THEN [out |-> <<Colon>> \o Slice(segment, 1, 1), params |-> <<Slice(segment, 1, 1)>>]
  ELSE [out |-> segment, params |-> <<>>]

\* let routePath = relativePath; if (baseName === 'index') routePath = basePath
RoutePath(child, basePath) ==
  IF child.name.stem = "index" THEN basePath
  ELSE PathJoin(basePath, NameString(child.name))

\* The RouteInfo processPageDirectory pushes for a page file; an empty
\* params stands for undefined.
PageRoute(child, basePath) ==
  LET relativePath == PathJoin(basePath, NameString(child.name))
      routePath == RoutePath(child, basePath)
      segments == Split(routePath, Slash)
      processed == [i \in DOMAIN segments |-> PageSegment(segments[i])]
      params == Flatten([i \in DOMAIN segments |-> processed[i].params])
      isApi == \/ StartsWith(relativePath, CodeUnits["api"] \o <<Slash>>)
               \/ Includes(relativePath, <<Slash>> \o CodeUnits["api"] \o <<Slash>>)
  IN  [id |-> [router |-> "pages", routePath |-> routePath],
       path |-> <<Slash>> \o Join([i \in DOMAIN segments |-> processed[i].out], Slash),
       filePath |-> child.path,
       isDynamic |-> Len(params) > 0,
       isApi |-> isApi,
       isPage |-> ~isApi,
       routerType |-> "pages",
       params |-> params]

RECURSIVE ProcessPageChildren(_, _)
\* processPageDirectory: the loop over dir.children
ProcessPageChildren(children, basePath) ==
  IF children = <<>> THEN <<>>
  ELSE LET child == children[1]
           here ==
             IF child.type = "file"
             THEN IF child.name.ext \notin PageExtensions THEN <<>>
                  ELSE IF StartsWith(CodeUnits[child.name.stem], <<Underscore>>) THEN <<>>
                  ELSE <<PageRoute(child, basePath)>>
             ELSE ProcessPageChildren(child.children,
                                      PathJoin(basePath, NameString(child.name)))
       IN  here \o ProcessPageChildren(Tail(children), basePath)

ProcessPageDirectory(dir, basePath) == ProcessPageChildren(dir.children, basePath)

\* The callback of segments.map in processAppDirectory.
AppSegment(segment) ==
  IF StartsWith(segment, <<LeftParen, Dot, Dot, Dot, RightParen>>)
  THEN [out |-> <<Star>>, params |-> <<Slice(segment, 5, 1)>>]
  ELSE IF StartsWith(segment, <<LeftParen>>) /\ EndsWith(segment, <<RightParen>>)
  THEN [out |-> <<>>, params |-> <<>>]
  ELSE IF StartsWith(segment, <<LeftBracket>>) /\ EndsWith(segment, <<RightBracket>>)
  THEN [out |-> <<Colon>> \o Slice(segment, 1, 1), params |-> <<Slice(segment, 1, 1)>>]
  ELSE [out |-> segment, params |-> <<>>]

\* The RouteInfo processAppDirectory pushes for a directory with a page or
\* route file.
AppRoute(dir, basePath, hasRoute) ==
  LET segments == Split(basePath, Slash)
      processed == [i \in DOMAIN segments |-> AppSegment(segments[i])]
      params == Flatten([i \in DOMAIN segments |-> processed[i].params])
      kept == SelectSeq([i \in DOMAIN segments |-> processed[i].out], LAMBDA o : o # <<>>)
  IN  [id |-> [router |-> "app", routePath |-> basePath],
       path |-> <<Slash>> \o Join(kept, Slash),
       filePath |-> dir.path,
       isDynamic |-> Len(params) > 0,
       isApi |-> hasRoute,
       isPage |-> ~hasRoute,
       routerType |-> "app",
       params |-> params]

RECURSIVE ProcessAppDirectory(_, _)
\* processAppDirectory
ProcessAppDirectory(dir, basePath) ==
  LET HasFile(stem) == \E i \in DOMAIN dir.children :
                         dir.children[i].type = "file" /\ dir.children[i].name.stem = stem
      dirs == SelectSeq(dir.children, LAMBDA c : c.type = "directory")
  IN  (IF HasFile("page") \/ HasFile("route")
       THEN <<AppRoute(dir, basePath, HasFile("route"))>> ELSE <<>>)
      \o Flatten([i \in DOMAIN dirs |->
                    ProcessAppDirectory(dirs[i], PathJoin(basePath, NameString(dirs[i].name)))])

\* analyzeRoutes(structure)
AnalyzeRoutes(tree) ==
  LET pagesDir == FindDirectory(tree, CodeUnits["pages"])
      appDir == FindDirectory(tree, CodeUnits["app"])
      pagesRoutes == IF pagesDir # <<>> THEN ProcessPageDirectory(pagesDir[1], <<>>) ELSE <<>>
      appRoutes == IF appDir # <<>> THEN ProcessAppDirectory(appDir[1], <<>>) ELSE <<>>
      routes == pagesRoutes \o appRoutes
  IN  [routes |-> routes,
       stats |-> [totalRoutes |-> Len(routes),
                  pageRoutes |-> CountWhere(routes, LAMBDA x : ~x.isApi),
                  apiRoutes |-> CountWhere(routes, LAMBDA x : x.isApi),
                  dynamicRoutes |-> CountWhere(routes, LAMBDA x : x.isDynamic),
                  pagesRouter |-> Len(pagesRoutes),
                  appRouter |-> Len(appRoutes)]]

\* analyzeRoutes is called on the tree the scan returned.
DoAnalyzeRoutes(r) ==
  /\ pc[r] = "scanned"
  /\ routeMap' = [routeMap EXCEPT ![r] = <<AnalyzeRoutes(structure[r][1])>>]
  /\ pc' = [pc EXCEPT ![r] = "routed"]
  /\ UNCHANGED <<fileData, fileIdx, depVars, dfsVars, compVars, solidVars, scanFrames,
                 structure, disk, suggestions, typeVars>>

(***************************************************************************)
(* Inputs of analyzeRoutes: projects with a pages and an app directory     *)
(***************************************************************************)
\* The largest number of entries of the pages directory.
MaxPageEntries == 3

PageEntries ==
  {DiskFile("index", ".tsx"), DiskFile("[id]", ".tsx"), DiskFile("_app", ".tsx"),
   DiskFile("[...slug]", ".ts"), DiskFile("notes", ".md"),
   DiskDir("api", TRUE, <<DiskFile("hello", ".ts")>>),
   DiskDir("[id]", TRUE, <<DiskFile("index", ".tsx")>>)}

\* The app directory, if the project has one.
AppDirs ==
  { <<>>,
    <<DiskDir("app", TRUE, <<DiskFile("page", ".tsx"),
                             DiskDir("[id]", TRUE, <<DiskFile("page", ".tsx")>>)>>)>>,
    <<DiskDir("app", TRUE, <<DiskDir("(shop)", TRUE,
                                     <<DiskDir("blog", TRUE, <<DiskFile("page", ".tsx")>>)>>)>>)>> }

InitRoutes ==
  /\ pc = [r \in {1} |-> "scan"]
  /\ \E l \in {x \in Listings(PageEntries, MaxPageEntries) :
                 \A i, j \in DOMAIN x : i # j => x[i].name # x[j].name},
        a \in AppDirs :
       disk = [r \in {1} |-> DiskDir("project", TRUE, <<DiskDir("pages", TRUE, l)>> \o a)]
  /\ fileData = [r \in {1} |-> <<>>]
  /\ fileIdx = [r \in {1} |-> 1]
  /\ InitDepsIdle({1})
  /\ InitDFSIdle({1})
  /\ InitCompIdle({1})
  /\ InitSolidIdle({1})
  /\ scanFrames = [r \in {1} |-> <<>>]
  /\ structure = [r \in {1} |-> <<>>]
  /\ routeMap = [r \in {1} |-> <<>>]
  /\ suggestions = [r \in {1} |-> <<>>]
  /\ InitTypesIdle({1})

NextRoutes ==
  \E r \in Runs : ScanStart(r) \/ ScanEntry(r) \/ ScanReturn(r) \/ DoAnalyzeRoutes(r)

SpecRoutes == InitRoutes /\ [][NextRoutes]_vars

(***************************************************************************)
(* Properties of analyzeRoutes                                             *)
(***************************************************************************)
Routed(r) == pc[r] = "routed"

\* The pages directory on disk holds exactly index.tsx and [id].tsx and
\* the project has no app directory.
IndexAndIdPages(r) ==
  /\ Len(disk[r].entries) = 1
  /\ {disk[r].entries[1].entries[i] : i \in DOMAIN disk[r].entries[1].entries}
       = {DiskFile("index", ".tsx"), DiskFile("[id]", ".tsx")}

\* C11: for a project whose pages directory holds exactly index.tsx and
\* [id].tsx, analyzeRoutes returns exactly two routes and the route of
\* [id].tsx is dynamic with params ["id"].
IndexAndIdYieldDynamicRoute ==
  \A r \in Runs :
    (Routed(r) /\ IndexAndIdPages(r)) =>
      /\ Len(routeMap[r][1].routes) = 2
      /\ \E i \in 1..2 :
           LET route == routeMap[r][1].routes[i]
           IN  /\ route.filePath.stem = "[id]"
               /\ route.isDynamic
               /\ route.params = <<CodeUnits["[id]"][2], CodeUnits["[id]"][3]>>

\* What the code returns for that project: two routes, the one of
\* [id].tsx not dynamic, without params and with path "/[id].tsx".
IndexAndIdYieldStaticRoutes ==
  \A r \in Runs :
    (Routed(r) /\ IndexAndIdPages(r)) =>
      /\ Len(routeMap[r][1].routes) = 2
      /\ \A i \in 1..2 :
           /\ ~routeMap[r][1].routes[i].isDynamic
           /\ routeMap[r][1].routes[i].params = <<>>
      /\ \E i \in 1..2 :
           routeMap[r][1].routes[i].path = <<Slash>> \o CodeUnits["[id]"] \o CodeUnits[".tsx"]

\* The route analysis of a pages directory with index.tsx and [id].tsx has
\* returned.
IndexAndIdRouted == \E r \in Runs : Routed(r) /\ IndexAndIdPages(r)

(***************************************************************************)
(* Inputs of analyzeSolid: files that declare one component each           *)
(***************************************************************************)
\* The largest number of files analyzeSolid is given.
MaxSolidFiles == 2

\* Locations around the two size thresholds.
SizedLocations ==
  {<<>>, At(1, 100), At(1, 101), At(1, 200), At(1, 201), At(1, 250), At(10, 110),
   At(10, 210)}

\* Components of the three declaration kinds at each location, a function
\* that mixes concerns, and a class whose body has no location.
SizedComponents ==
  {MkSolidComponent(t, "Card", l, {}, <<0, 0, 0, 0>>) :
     t \in {"FunctionDeclaration", "ClassDeclaration", "VariableDeclarator"},
     l \in SizedLocations}
  \cup {MkSolidComponent("FunctionDeclaration", "Card", At(1, 250), {"api", "state"},
                         <<0, 0, 0, 0>>),
        [MkSolidComponent("ClassDeclaration", "Card", At(1, 250), {}, <<0, 0, 0, 0>>)
           EXCEPT !.bodyLoc = <<>>]}

SolidFilePaths ==
  <<MkPath(<<"src">>, "Card", ".tsx"), MkPath(<<"src">>, "Panel", ".tsx"),
    MkPath(<<"src">>, "Form", ".tsx")>>

InitSolid ==
  /\ pc = [r \in {1} |-> "solid"]
  /\ \E n \in 1..MaxSolidFiles : \E cs \in [1..n -> SizedComponents] :
       fileData = [r \in {1} |->
                     [i \in 1..n |-> CreateFileNode(SolidFilePaths[((i - 1) % 3) + 1], 1,
                                                    MkAst(TRUE, <<>>, <<>>, <<cs[i]>>, <<>>))]]
  /\ fileIdx = [r \in {1} |-> 1]
  /\ InitDepsIdle({1})
  /\ InitDFSIdle({1})
  /\ InitCompIdle({1})
  /\ InitSolidIdle({1})
  /\ InitScanIdle({1})

NextSolid == \E r \in Runs : SolidFile(r) \/ SolidReturn(r)

SpecSolid == InitSolid /\ [][NextSolid]_vars

(***************************************************************************)
(* Properties of analyzeSRP                                                *)
(***************************************************************************)
SolidDone(r) == pc[r] = "solidDone"

\* The location whose lines measure a component of its kind; <<>> if none.
MeasuredLocation(component) ==
  CASE component.type = "ClassDeclaration" -> component.bodyLoc
    [] component.type = "VariableDeclarator" -> component.initLoc
    [] OTHER -> component.loc

\* The number of issues of the rule recorded for the component of a file.
IssuesFor(r, file, rule) ==
  CountWhere(issues[r], LAMBDA i : i.id.rule = rule /\ i.id.filePath = file.path)

\* The size issues of every analysed component are those the measure asks
\* for: one critical issue above 200, one warning above 100 up to 200, none
\* otherwise or without a location.
SizeIssuesMatch(r, Measure(_)) ==
  \A f \in DOMAIN fileData[r] :
    LET file == fileData[r][f]
        component == file.ast.components[1]
        location == MeasuredLocation(component)
        large == location # <<>> /\ Measure(location[1]) > 200
        medium == location # <<>> /\ Measure(location[1]) > 100 /\ ~large
    IN  /\ IssuesFor(r, file, "srp-large-component") = (IF large THEN 1 ELSE 0)
        /\ IssuesFor(r, file, "srp-medium-component") = (IF medium THEN 1 ELSE 0)
        /\ \A i \in DOMAIN issues[r] :
             /\ issues[r][i].id.rule = "srp-large-component" => issues[r][i].severity = "critical"
             /\ issues[r][i].id.rule = "srp-medium-component" => issues[r][i].severity = "warning"

\* C12 as stated: the size issue follows the span end line - start line.
SizeIssueBySpan ==
  \A r \in Runs : SolidDone(r) => SizeIssuesMatch(r, LAMBDA l : l.end - l.start)

\* C12 as amended: the size issue follows the number of lines
\* end line - start line + 1: critical above 200, warning above 100 up to
\* 200, none otherwise; and a 250-line function component has exactly one
\* critical SRP issue.
SizeIssueByLineCount ==
  \A r \in Runs :
    SolidDone(r) =>
      /\ SizeIssuesMatch(r, LAMBDA l : l.end - l.start + 1)
      /\ \A f \in DOMAIN fileData[r] :
           LET component == fileData[r][f].ast.components[1]
           IN  (component.type = "FunctionDeclaration" /\ component.loc = At(1, 250)) =>
                 CountWhere(issues[r], LAMBDA i : /\ i.filePath = fileData[r][f].path
                                                  /\ i.principle = "SRP"
                                                  /\ i.severity = "critical") = 1

\* Two files have been analysed: a function of lines 1 to 201, reported
\* critical, and a variable declarator of lines 10 to 110, reported warning.
BoundarySizesAnalysed ==
  \E r \in Runs :
    /\ SolidDone(r)
    /\ Len(fileData[r]) = 2
    /\ fileData[r][1].ast.components[1].type = "FunctionDeclaration"
    /\ fileData[r][1].ast.components[1].loc = At(1, 201)
    /\ fileData[r][2].ast.components[1].type = "VariableDeclarator"
    /\ fileData[r][2].ast.components[1].initLoc = At(10, 110)
    /\ IssuesFor(r, fileData[r][1], "srp-large-component") = 1
    /\ IssuesFor(r, fileData[r][2], "srp-medium-component") = 1

(***************************************************************************)
(* Properties of the scanner: unreadable directories                       *)
(***************************************************************************)
\* The entries of a listing that the scan keeps: directories that are not
\* excluded and files with an included extension.
KeptEntries(entries) ==
  SelectSeq(entries, LAMBDA e : IF e.kind = "directory" THEN e.name.stem \notin ExcludeDirs
                                ELSE e.name.ext \in IncludeExtensions)

\* C13: when a subdirectory of a readable root cannot be read (and every
\* file can), the scan still returns a tree; the tree omits that subdirectory and holds every
\* other kept entry of the root.
UnreadableSubdirectoryOmitted ==
  \A r \in Runs :
    (disk[r].readable /\ UnreadableFile \notin Range(disk[r].entries)) =>
      /\ pc[r] # "scanFailed"
      /\ Scanned(r) =>
           \A i \in DOMAIN KeptEntries(disk[r].entries) :
             LET e == KeptEntries(disk[r].entries)[i]
             IN  e.readable <=> \E j \in DOMAIN structure[r][1].children :
                                  structure[r][1].children[j].name = e.name

\* What the code does: the scan of a readable root fails exactly when it
\* comes to read a kept subdirectory that cannot be read.
UnreadableSubdirectoryFailsScan ==
  \A r \in Runs :
    (disk[r].readable /\ UnreadableFile \notin Range(disk[r].entries)) =>
      /\ pc[r] = "scanFailed" =>
           \E i \in DOMAIN disk[r].entries :
             /\ disk[r].entries[i].kind = "directory"
             /\ ~disk[r].entries[i].readable
      /\ Scanned(r) => \A i \in DOMAIN disk[r].entries : disk[r].entries[i].readable

(***************************************************************************)
(* Properties of the per-file error handling                               *)
(***************************************************************************)
\* The files of the run that the analyzers take and that fail to parse.
FailingFiles(r) == {f \in Range(TsFiles(fileData[r])) : ~f.ast.ok}

\* C14: every file whose read or parse fails has an issue recorded for it
\* in the output of the analyzer; here the report of analyzeSolid.
FailedFileHasIssue ==
  \A r \in Runs :
    pc[r] = "solidDone" =>
      \A f \in FailingFiles(r) : \E i \in DOMAIN issues[r] : issues[r][i].filePath = f.path

\* What the code does: the outputs hold nothing for a failing file, no
\* issue, no dependency node and no component node.
FailedFileLeavesNoTrace ==
  \A r \in Runs :
    \A f \in FailingFiles(r) :
      /\ \A i \in DOMAIN issues[r] : issues[r][i].filePath # f.path
      /\ \A i \in DOMAIN dependencyNodes[r] : dependencyNodes[r][i].filePath # f.path
      /\ \A i \in DOMAIN componentNodes[r] : componentNodes[r][i].filePath # f.path

RECURSIVE AllDirectoriesReadable(_)
\* The directory and the kept directories below it can all be read.
AllDirectoriesReadable(dir) ==
  /\ dir.readable
  /\ \A i \in DOMAIN dir.entries :
       (dir.entries[i].kind = "directory" /\ dir.entries[i].name.stem \notin ExcludeDirs)
         => AllDirectoriesReadable(dir.entries[i])

\* C15: a per-file error never propagates to the caller; for the scan:
\* when every directory can be read the scan returns a tree, whichever
\* files fail, and the tree holds every kept root entry that did not fail.
PerFileErrorNeverPropagates ==
  \A r \in Runs :
    AllDirectoriesReadable(disk[r]) =>
      /\ pc[r] # "scanFailed"
      /\ Scanned(r) =>
           \A i \in DOMAIN KeptEntries(disk[r].entries) :
             LET e == KeptEntries(disk[r].entries)[i]
             IN  e.readable => \E j \in DOMAIN structure[r][1].children :
                                 structure[r][1].children[j].name = e.name

\* What the code does: the scan of readable directories fails exactly
\* when it comes to a kept file whose stat fails.
StatErrorFailsScan ==
  \A r \in Runs :
    AllDirectoriesReadable(disk[r]) =>
      /\ pc[r] = "scanFailed" => UnreadableFile \in Range(disk[r].entries)
      /\ Scanned(r) => UnreadableFile \notin Range(disk[r].entries)

(***************************************************************************)
(* generateRefactorSuggestions                                             *)
(***************************************************************************)
SuggestionPriorityMedium(severity) == "medium"

\* "Map severity to priority"
SuggestionPriority(severity) ==
  IF severity = "critical" THEN "high"
  ELSE IF severity = "warning" THEN "medium"
  ELSE "low"

\* "Map principle to type and effort": the type
SuggestionType(issue) ==
  CASE issue.principle = "SRP" -> "maintainability"
    [] issue.principle = "OCP" -> "maintainability"
    [] issue.principle = "LSP" -> "best-practice"
    [] issue.principle = "ISP" -> "best-practice"
    [] issue.principle = "DIP" -> "maintainability"
    [] OTHER -> "maintainability"

\* "Map principle to type and effort": the effort
SuggestionEffort(issue) ==
  CASE issue.principle = "SRP" -> (IF issue.severity = "critical" THEN "hard" ELSE "medium")
    [] issue.principle = "OCP" -> "medium"
    [] issue.principle = "LSP" -> "medium"
    [] issue.principle = "ISP" -> "easy"
    [] issue.principle = "DIP" -> "hard"
    [] OTHER -> "medium"

\* convertSolidIssuesToSuggestions
ConvertSolidIssuesToSuggestions(solidIssues) ==
  [i \in DOMAIN solidIssues |->
     [id |-> [prefix |-> "refactor", of |-> solidIssues[i].id],
      title |-> [prefix |-> "Fix Issue", principle |-> solidIssues[i].principle],
      filePath |-> <<solidIssues[i].filePath>>,
      priority |-> SuggestionPriority(solidIssues[i].severity),
      effort |-> SuggestionEffort(solidIssues[i]),
      impact |-> SuggestionPriority(solidIssues[i].severity),
      type |-> SuggestionType(solidIssues[i])]]

CircularPriorityHigh(dependency) == "high"

\* dependency.severity === 'critical' ? 'high' : 'medium'
CircularPriority(dependency) == IF dependency.severity = "critical" THEN "high" ELSE "medium"

\* generateCircularDependencySuggestions; an empty filePath stands for ''.
GenerateCircularDependencySuggestions(dependencies) ==
  [i \in DOMAIN dependencies |->
     [id |-> [prefix |-> "refactor-circular-dependency", index |-> i - 1],
      title |-> [prefix |-> "Break Circular Dependency", path |-> dependencies[i].path],
      filePath |-> <<>>,
      priority |-> CircularPriority(dependencies[i]),
      effort |-> "medium",
      impact |-> "high",
      type |-> "maintainability"]]

LargeFileBytes == 10000

IsLargeFileFromThreshold(file) ==
  file.extension \in {".ts", ".tsx", ".js", ".jsx"} /\ file.size >= LargeFileBytes

\* The test of analyzeLargeFiles: a code file of more than 10000 bytes.
IsLargeFile(file) ==
  file.extension \in {".ts", ".tsx", ".js", ".jsx"} /\ file.size # 0 /\ file.size > LargeFileBytes

\* analyzeLargeFiles
AnalyzeLargeFiles(files) ==
  LET large == SelectSeq(files, IsLargeFile)
  IN  [i \in DOMAIN large |->
         [id |-> [prefix |-> "refactor-large-file", filePath |-> large[i].path],
          title |-> [prefix |-> "Split Large File", name |-> large[i].name],
          filePath |-> <<large[i].path>>,
          priority |-> "medium",
          effort |-> "medium",
          impact |-> "medium",
          type |-> "maintainability"]]

\* componentFiles of analyzeFileOrganization
MisplacedComponentFiles(files) ==
  SelectSeq(files, LAMBDA f : /\ f.extension \in {".tsx", ".jsx"}
                              /\ f.metadata.isComponent
                              /\ ~PathIncludesDir(f.path, "components")
                              /\ ~PathIncludesDir(f.path, "pages")
                              /\ ~PathIncludesDir(f.path, "app"))

\* utilityFiles of analyzeFileOrganization
MisplacedUtilityFiles(files) ==
  SelectSeq(files, LAMBDA f : /\ f.extension \in {".ts", ".js"}
                              /\ ~f.metadata.isComponent
                              /\ ~f.metadata.isPage
                              /\ ~PathIncludesDir(f.path, "utils")
                              /\ ~PathIncludesDir(f.path, "helpers")
                              /\ ~PathIncludesDir(f.path, "lib"))

SeveralUtilityFiles == 3

TooManyUtilityFilesFromThreshold(count) == count >= SeveralUtilityFiles

\* utilityFiles.length > 3
TooManyUtilityFiles(count) == count > SeveralUtilityFiles

OrganizeSuggestion(id) ==
  [id |-> [prefix |-> id], title |-> [prefix |-> id], filePath |-> <<>>,
   priority |-> "low", effort |-> "easy", impact |-> "medium", type |-> "best-practice"]

\* analyzeFileOrganization
AnalyzeFileOrganization(files) ==
  (IF Len(MisplacedComponentFiles(files)) > 0
   THEN <<OrganizeSuggestion("refactor-organize-components")>> ELSE <<>>)
  \o (IF TooManyUtilityFiles(Len(MisplacedUtilityFiles(files)))
      THEN <<OrganizeSuggestion("refactor-organize-utilities")>> ELSE <<>>)

\* generateRefactorSuggestions(fileData, solidIssues, circularDependencies)
GenerateRefactorSuggestions(r) ==
  /\ pc[r] = "refactor"
  /\ suggestions' = [suggestions EXCEPT ![r] =
       ConvertSolidIssuesToSuggestions(issues[r])
         \o GenerateCircularDependencySuggestions(circularDependencies[r])
         \o AnalyzeLargeFiles(fileData[r])
         \o AnalyzeFileOrganization(fileData[r])]
  /\ pc' = [pc EXCEPT ![r] = "refactored"]
  /\ UNCHANGED <<fileData, fileIdx, depVars, dfsVars, compVars, solidVars, scanFrames,
                 structure, disk, routeMap, typeVars>>

(***************************************************************************)
(* Inputs of generateRefactorSuggestions                                   *)
(***************************************************************************)
\* The largest number of utility files outside a utils directory.
MaxUtilityFiles == 4

NoAst == MkAst(FALSE, <<>>, <<>>, <<>>, <<>>)

UtilityStems == <<"format", "parse", "dates", "http", "math", "text">>

\* n utility files directly under src.
UtilityFiles(n) ==
  [i \in 1..n |-> CreateFileNode(MkPath(<<"src">>, UtilityStems[i], ".ts"), 1, NoAst)]

\* Component files inside and outside a components directory, a page
\* and a utility in its place.
PlacedFiles ==
  { <<>>,
    <<CreateFileNode(MkPath(<<"src">>, "Button", ".tsx"), 1, NoAst)>>,
    <<CreateFileNode(MkPath(<<"src", "components">>, "Card", ".tsx"), 1, NoAst),
      CreateFileNode(MkPath(<<"src", "utils">>, "lookup", ".ts"), 1, NoAst)>>,
    <<CreateFileNode(MkPath(<<"src">>, "Button", ".tsx"), 1, NoAst),
      CreateFileNode(MkPath(<<"src", "widgets">>, "Card", ".jsx"), 1, NoAst),
      CreateFileNode(MkPath(<<"pages">>, "Home", ".tsx"), 1, NoAst)>> }

\* File sizes in bytes around the threshold; 0 is an empty file.
FileSizes == {0, 10000, 10001, 10240, 20000}

SizedFiles ==
  {CreateFileNode(MkPath(<<"src", "lib">>, "data", e), n, NoAst) :
     e \in {".ts", ".jsx", ".json", ".md"}, n \in FileSizes}

IssueFile == [path |-> MkPath(<<"src">>, "Button", ".tsx")]

\* Issue lists as analyzeSolid reports them.
ReportedIssueLists ==
  { <<>>,
    <<SolidIssue("srp-large-component", "SRP", "critical", IssueFile, "Button"),
      SolidIssue("srp-mixed-concerns", "SRP", "warning", IssueFile, "Button")>>,
    <<SolidIssue("ocp-hardcoded-values", "OCP", "info", IssueFile, "Button"),
      SolidIssue("lsp-interface-violation", "LSP", "warning", IssueFile, "CardProps"),
      SolidIssue("isp-unrelated-props", "ISP", "info", IssueFile, "CardProps"),
      SolidIssue("isp-large-interface", "ISP", "warning", IssueFile, "CardProps"),
      SolidIssue("dip-tight-coupling", "DIP", "warning", IssueFile, "Button")>> }

CycleOf(labels) == [path |-> labels, severity |-> Severity(labels)]

\* Cycle lists as detectCircularDependencies reports them.
ReportedCycleLists ==
  { <<>>,
    <<CycleOf(<<"a.ts", "b.ts">>)>>,
    <<CycleOf(<<"a.ts", "b.ts", "c.ts", "d.ts">>), CycleOf(<<"c.ts", "e.ts", "f.ts">>)>> }

InitRefactor ==
  /\ pc = [r \in {1} |-> "refactor"]
  /\ \E n \in 0..MaxUtilityFiles, placed \in PlacedFiles, sized \in SizedFiles :
       fileData = [r \in {1} |-> UtilityFiles(n) \o placed \o <<sized>>]
  /\ fileIdx = [r \in {1} |-> 1]
  /\ InitDepsIdle({1})
  /\ \E cycles \in ReportedCycleLists :
       /\ circularDependencies = [r \in {1} |-> cycles]
       /\ visited = [r \in {1} |-> {}]
       /\ stack = [r \in {1} |-> {}]
       /\ frames = [r \in {1} |-> <<>>]
       /\ rootIdx = [r \in {1} |-> 1]
  /\ InitCompIdle({1})
  /\ \E found \in ReportedIssueLists :
       /\ issues = [r \in {1} |-> found]
       /\ totalComponents = [r \in {1} |-> 0]
       /\ filesAnalyzed = [r \in {1} |-> 0]
       /\ score = [r \in {1} |-> NoScore]
  /\ InitScanIdle({1})

NextRefactor == \E r \in Runs : GenerateRefactorSuggestions(r)

SpecRefactor == InitRefactor /\ [][NextRefactor]_vars

(***************************************************************************)
(* Properties of generateRefactorSuggestions                               *)
(***************************************************************************)
Refactored(r) == pc[r] = "refactored"

\* The number of suggestions whose id starts with the prefix.
SuggestionsOfKind(r, prefix) ==
  CountWhere(suggestions[r], LAMBDA x : x.id.prefix = prefix)

\* Every issue has exactly one suggestion, at the index of the issue, with
\* id 'refactor-' + issue id, the issue's filePath and the priority of its
\* severity.
OneSuggestionPerIssue(r) ==
  /\ SuggestionsOfKind(r, "refactor") = Len(issues[r])
  /\ \A i \in DOMAIN issues[r] :
       /\ suggestions[r][i].id = [prefix |-> "refactor", of |-> issues[r][i].id]
       /\ suggestions[r][i].filePath = <<issues[r][i].filePath>>
       /\ suggestions[r][i].priority =
            (CASE issues[r][i].severity = "critical" -> "high"
               [] issues[r][i].severity = "warning" -> "medium"
               [] issues[r][i].severity = "info" -> "low")

\* C16 as stated: one suggestion per issue, and the type and the effort of
\* the suggestions of two issues of the same principle are the same.
IssueSuggestionsByPrincipleOnly ==
  \A r \in Runs :
    Refactored(r) =>
      /\ OneSuggestionPerIssue(r)
      /\ \A i, j \in DOMAIN issues[r] :
           issues[r][i].principle = issues[r][j].principle =>
             /\ suggestions[r][i].type = suggestions[r][j].type
             /\ suggestions[r][i].effort = suggestions[r][j].effort

\* C16 as amended: one suggestion per issue; the type follows the
\* principle alone (SRP, OCP, DIP maintainability; LSP, ISP best-practice);
\* the effort follows the principle (OCP, LSP medium; ISP easy; DIP hard)
\* except for SRP, where it is hard for a critical issue and medium
\* otherwise.
IssueSuggestionsByTable ==
  \A r \in Runs :
    Refactored(r) =>
      /\ OneSuggestionPerIssue(r)
      /\ \A i \in DOMAIN issues[r] :
           /\ suggestions[r][i].type =
                (IF issues[r][i].principle \in {"LSP", "ISP"}
                 THEN "best-practice" ELSE "maintainability")
           /\ suggestions[r][i].effort =
                (CASE issues[r][i].principle = "SRP" ->
                        (IF issues[r][i].severity = "critical" THEN "hard" ELSE "medium")
                   [] issues[r][i].principle \in {"OCP", "LSP"} -> "medium"
                   [] issues[r][i].principle = "ISP" -> "easy"
                   [] issues[r][i].principle = "DIP" -> "hard")

\* Suggestions have been generated for a critical and a warning SRP issue:
\* efforts hard and medium.
TwoSrpEfforts ==
  \E r \in Runs :
    /\ Refactored(r)
    /\ Len(issues[r]) = 2
    /\ issues[r][1].principle = "SRP" /\ issues[r][2].principle = "SRP"
    /\ suggestions[r][1].effort = "hard" /\ suggestions[r][2].effort = "medium"
    /\ suggestions[r][1].priority = "high" /\ suggestions[r][2].priority = "medium"

\* C17: every cycle record has exactly one suggestion, titled with the
\* cycle path, of priority high if the record is critical and medium
\* otherwise, impact high, effort medium and an empty filePath.
OneSuggestionPerCycle ==
  \A r \in Runs :
    Refactored(r) =>
      /\ SuggestionsOfKind(r, "refactor-circular-dependency") = Len(circularDependencies[r])
      /\ \A k \in DOMAIN circularDependencies[r] :
           LET x == suggestions[r][Len(issues[r]) + k]
           IN  /\ x.id.prefix = "refactor-circular-dependency"
               /\ x.title.path = circularDependencies[r][k].path
               /\ x.priority = (IF circularDependencies[r][k].severity = "critical"
                                THEN "high" ELSE "medium")
               /\ x.impact = "high"
               /\ x.effort = "medium"
               /\ x.filePath = <<>>

\* Suggestions have been generated for a critical and a warning cycle
\* record behind the suggestions of two issues.
CriticalAndWarningCycleSuggested ==
  \E r \in Runs :
    /\ Refactored(r)
    /\ Len(issues[r]) = 2
    /\ Len(circularDependencies[r]) = 2
    /\ circularDependencies[r][1].severity = "critical"
    /\ circularDependencies[r][2].severity = "warning"
    /\ suggestions[r][3].priority = "high"
    /\ suggestions[r][4].priority = "medium"

\* The number of split suggestions that carry the path of the file.
SplitSuggestionsFor(r, file) ==
  CountWhere(suggestions[r],
             LAMBDA x : x.id.prefix = "refactor-large-file" /\ x.filePath = <<file.path>>)

\* C18 as stated: every file of more than 10000 bytes has exactly one
\* split suggestion with its path, every other file none.
LargeFileAlwaysSplit ==
  \A r \in Runs :
    Refactored(r) =>
      \A i \in DOMAIN fileData[r] :
        SplitSuggestionsFor(r, fileData[r][i]) = (IF fileData[r][i].size > 10000 THEN 1 ELSE 0)

\* C18 as amended: every .ts, .tsx, .js or .jsx file of more than 10000
\* bytes has exactly one split suggestion with its path; every other file,
\* a larger file of another extension included, has none.
LargeCodeFileSplit ==
  \A r \in Runs :
    Refactored(r) =>
      \A i \in DOMAIN fileData[r] :
        SplitSuggestionsFor(r, fileData[r][i]) =
          (IF /\ fileData[r][i].size > 10000
              /\ fileData[r][i].extension \in {".ts", ".tsx", ".js", ".jsx"}
           THEN 1 ELSE 0)

\* Suggestions have been generated for a .json file of 20000 bytes, which
\* has no split suggestion.
LargeDataFileKept ==
  \E r \in Runs :
    /\ Refactored(r)
    /\ \E i \in DOMAIN fileData[r] :
         /\ fileData[r][i].extension = ".json"
         /\ fileData[r][i].size = 20000
         /\ SplitSuggestionsFor(r, fileData[r][i]) = 0

\* Suggestions have been generated for a .ts file of 10001 bytes, which
\* has one split suggestion.
LargeCodeFileSuggested ==
  \E r \in Runs :
    /\ Refactored(r)
    /\ \E i \in DOMAIN fileData[r] :
         /\ fileData[r][i].extension = ".ts"
         /\ fileData[r][i].size = 10001
         /\ SplitSuggestionsFor(r, fileData[r][i]) = 1

\* C19: the organize-components suggestion is emitted exactly when some
\* component file is misplaced, the organize-utilities suggestion exactly
\* when more than 3 utility files are misplaced; each at most once.
OrganizeSuggestionsByCount ==
  \A r \in Runs :
    Refactored(r) =>
      /\ SuggestionsOfKind(r, "refactor-organize-components") =
           (IF Len(MisplacedComponentFiles(fileData[r])) > 0 THEN 1 ELSE 0)
      /\ SuggestionsOfKind(r, "refactor-organize-utilities") =
           (IF Len(MisplacedUtilityFiles(fileData[r])) > 3 THEN 1 ELSE 0)

\* Suggestions have been generated for two misplaced component files and
\* exactly three misplaced utility files: one organize-components
\* suggestion and no organize-utilities suggestion.
ThreeUtilitiesTolerated ==
  \E r \in Runs :
    /\ Refactored(r)
    /\ Len(MisplacedComponentFiles(fileData[r])) = 2
    /\ Len(MisplacedUtilityFiles(fileData[r])) = 3
    /\ SuggestionsOfKind(r, "refactor-organize-components") = 1
    /\ SuggestionsOfKind(r, "refactor-organize-utilities") = 0

(***************************************************************************)
(* Properties of the relationships of analyzeComponents                    *)
(***************************************************************************)
\* The source files analyzeComponents reads without an error.
AnalysedFiles(r) == {f \in Range(TsFiles(fileData[r])) : f.ast.ok}

\* The <<declaration, specifier>> positions at which the file binds the
\* capitalized local name through a specifier of one of the types and a
\* source of one of the kinds.
ImportOccurrences(file, name, types, kinds) ==
  {o \in UNION {{<<d, k>> : k \in DOMAIN file.ast.imports[d].specifiers} :
                    d \in DOMAIN file.ast.imports} :
     /\ file.ast.imports[o[1]].source.kind \in kinds
     /\ file.ast.imports[o[1]].specifiers[o[2]].type \in types
     /\ file.ast.imports[o[1]].specifiers[o[2]].local = name
     /\ IsCapitalized(name)}

\* The <<source id, target id>> pairs the statement asks for: S defined in
\* a file F that imports the name of T, the ids of S and T different.
ExpectedEdges(r, types, kinds) ==
  {<<componentNodes[r][p[1]].id, componentNodes[r][p[2]].id>> :
     p \in
       {e \in (DOMAIN componentNodes[r]) \X (DOMAIN componentNodes[r]) :
          /\ componentNodes[r][e[1]].id # componentNodes[r][e[2]].id
          /\ \E f \in AnalysedFiles(r) :
               /\ f.path = componentNodes[r][e[1]].filePath
               /\ ImportOccurrences(f, componentNodes[r][e[2]].label, types, kinds) # {}}}

\* The <<source id, target id>> pairs of the relationships returned.
ReturnedEdges(r) == {<<relationships[r][i].source, relationships[r][i].target>> :
                       i \in DOMAIN relationships[r]}

AllSpecifierTypes ==
  {"ImportSpecifier", "ImportDefaultSpecifier", "ImportNamespaceSpecifier"}

\* C20 as stated: the relationships returned are exactly the edges S -> T
\* for every component S of a file that binds, through an import from a
\* relative source, a capitalized local name equal to the displayName of a
\* component T of another id; both ends are ids of returned nodes.
EdgesForEveryImportedName ==
  \A r \in Runs :
    pc[r] = "componentsDone" =>
      ReturnedEdges(r) = ExpectedEdges(r, AllSpecifierTypes, {"relative"})

\* C20 as amended: the relationships returned are exactly the edges S -> T
\* for every component S of a file that binds, through a named or default
\* import specifier of a source that starts with '.', a capitalized local
\* name equal to the displayName of a component T of another id; an edge
\* is repeated once for every such binding of the name and every pair of
\* nodes that carry the two ids; both ends are ids of returned nodes.
EdgesForNamedAndDefaultImports ==
  \A r \in Runs :
    pc[r] = "componentsDone" =>
      /\ ReturnedEdges(r) =
           ExpectedEdges(r, {"ImportSpecifier", "ImportDefaultSpecifier"}, {"relative"})
      /\ \A i \in DOMAIN relationships[r] :
           /\ \E n \in DOMAIN componentNodes[r] :
                componentNodes[r][n].id = relationships[r][i].source
           /\ \E n \in DOMAIN componentNodes[r] :
                componentNodes[r][n].id = relationships[r][i].target
      /\ \A e \in ReturnedEdges(r) :
           CountWhere(relationships[r], LAMBDA x : <<x.source, x.target>> = e) =
             CountWhere(componentNodes[r], LAMBDA n : n.id = e[1])
             * CountWhere(componentNodes[r], LAMBDA n : n.id = e[2])
             * Cardinality(UNION {ImportOccurrences(f, e[2].name,
                                    {"ImportSpecifier", "ImportDefaultSpecifier"},
                                    {"relative"}) :
                                  f \in {g \in AnalysedFiles(r) : g.path = e[1].filePath}})

\* The analysis has finished for a file that defines Button and binds Card
\* only through a namespace import, next to a file that defines Card: no
\* relationship leads from Button to Card.
NamespaceImportIgnored ==
  \E r \in Runs :
    /\ pc[r] = "componentsDone"
    /\ \E f \in AnalysedFiles(r) :
         /\ ImportOccurrences(f, "Card", {"ImportNamespaceSpecifier"}, {"relative"}) # {}
         /\ ImportOccurrences(f, "Card", {"ImportSpecifier", "ImportDefaultSpecifier"},
                              {"relative"}) = {}
         /\ \E s, t \in DOMAIN componentNodes[r] :
              /\ componentNodes[r][s].filePath = f.path
              /\ componentNodes[r][s].label = "Button"
              /\ componentNodes[r][t].label = "Card"
              /\ componentNodes[r][t].filePath # f.path
              /\ <<componentNodes[r][s].id, componentNodes[r][t].id>> \notin ReturnedEdges(r)

\* The analysis has finished for a file that defines Button and imports
\* Card by name, next to a file that defines Card: the relationship from
\* Button to Card is returned.
NamedImportRelated ==
  \E r \in Runs :
    /\ pc[r] = "componentsDone"
    /\ \E f \in AnalysedFiles(r) :
         /\ ImportOccurrences(f, "Card", {"ImportSpecifier"}, {"relative"}) # {}
         /\ \E s, t \in DOMAIN componentNodes[r] :
              /\ componentNodes[r][s].filePath = f.path
              /\ componentNodes[r][s].label = "Button"
              /\ componentNodes[r][t].label = "Card"
              /\ componentNodes[r][t].filePath # f.path
              /\ <<componentNodes[r][s].id, componentNodes[r][t].id>> \in ReturnedEdges(r)

(***************************************************************************)
(* Properties of resolveImportPath                                         *)
(***************************************************************************)
\* The candidates of a specifier in the order of the description: the
\* literal path, the path with each extension, the index file under each
\* extension.
CandidatesInStatedOrder(sourcePath, spec) ==
  LET resolvedPath == PathResolve(Dirname(sourcePath), spec)
  IN  <<resolvedPath>>
      \o [i \in DOMAIN TsExtensions |->
            MkPath(resolvedPath.dir, resolvedPath.stem, TsExtensions[i])]
      \o [i \in DOMAIN TsExtensions |->
            MkPath(Append(resolvedPath.dir, resolvedPath.stem), "index", TsExtensions[i])]

\* The node analyzeDependencies pushed for the file, if any.
NodesOfFile(r, file) == {n \in Range(dependencyNodes[r]) : n.filePath = file.path}

\* C21: the import set of every node consists of the first candidate, in
\* the order literal path, extensions, index files, of each specifier
\* that starts with '.' or '/'; other specifiers contribute nothing.
FirstCandidateIsLiteralPath ==
  \A r \in Runs : \A f \in Range(TsFiles(fileData[r])) : \A n \in NodesOfFile(r, f) :
    Range(n.imports) =
      {CandidatesInStatedOrder(f.path, f.ast.imports[i].source)[1] :
         i \in {j \in DOMAIN f.ast.imports : IsLocalSpecifier(f.ast.imports[j].source)}}

\* What resolveImportPath does: a resolved path that has an extension is
\* returned as it is, a path without one gets '.ts' appended, whatever
\* the extension of the file it names; no other candidate is returned.
ExtensionlessImportGetsTs ==
  \A r \in Runs : \A f \in Range(TsFiles(fileData[r])) : \A n \in NodesOfFile(r, f) :
    Range(n.imports) =
      {LET c == CandidatesInStatedOrder(f.path, f.ast.imports[i].source)
       IN  IF Extname(c[1]) = "" THEN c[2] ELSE c[1] :
         i \in {j \in DOMAIN f.ast.imports : IsLocalSpecifier(f.ast.imports[j].source)}}

(***************************************************************************)
(* analyzeStructure                                                        *)
(***************************************************************************)
\* { ...node.metadata, ...fields }: the fields of the second record over
\* those of the first; the result is a defined metadata object.
SpreadMetadata(metadata, fields) ==
  [k \in (DOMAIN metadata \cup DOMAIN fields) \cup {"defined"} |->
     IF k = "defined" THEN TRUE
     ELSE IF k \in DOMAIN fields THEN fields[k] ELSE metadata[k]]

\* The metadata annotateNextJsStructure leaves on a node of that name.
AnnotatedMetadata(node) ==
  IF node.name.ext # "" THEN node.metadata
  ELSE IF node.name.stem \in {"pages", "app"}
  THEN SpreadMetadata(node.metadata, [isPages |-> node.name.stem = "pages",
                                      isApp |-> node.name.stem = "app"])
  ELSE IF node.name.stem \in {"components", "ui"}
  THEN SpreadMetadata(node.metadata, [isComponents |-> TRUE])
  ELSE IF node.name.stem = "public"
  THEN SpreadMetadata(node.metadata, [isPublic |-> TRUE])
  ELSE IF node.name.stem = "styles"
  THEN SpreadMetadata(node.metadata, [isStyles |-> TRUE])
  ELSE node.metadata

RECURSIVE AnnotateNextJsStructure(_)
\* annotateNextJsStructure: the node and, recursively, its directories.
AnnotateNextJsStructure(node) ==
  [node EXCEPT
     !.metadata = AnnotatedMetadata(node),
     !.children = [i \in DOMAIN node.children |->
                     IF node.children[i].type = "directory"
                     THEN AnnotateNextJsStructure(node.children[i])
                     ELSE node.children[i]]]

\* The value analyzeStructure returns for the tree scanProjectDirectory
\* returned.
AnalyzeStructure(projectRoot, tree) ==
  [name |-> Basename(projectRoot), structure |-> AnnotateNextJsStructure(tree)]

(***************************************************************************)
(* Properties of the file counts                                           *)
(***************************************************************************)
RECURSIVE DirectoriesOf(_)
\* The directory nodes of the tree, the node itself included.
DirectoriesOf(node) ==
  {node} \cup UNION {DirectoriesOf(node.children[i]) :
                       i \in {j \in DOMAIN node.children : node.children[j].type = "directory"}}

RECURSIVE FilePathsBelow(_)
\* The paths of the file nodes in the whole subtree of the directory.
FilePathsBelow(node) ==
  UNION {IF node.children[i].type = "file" THEN {node.children[i].path}
         ELSE FilePathsBelow(node.children[i]) : i \in DOMAIN node.children}

\* The directory carries a fileCount equal to the number of file nodes of
\* its subtree.
CarriesFileCount(node) ==
  /\ node.metadata.defined
  /\ "fileCount" \in DOMAIN node.metadata
  /\ node.metadata.fileCount = Cardinality(FilePathsBelow(node))

\* The tree analyzeStructure returns in the run.
ReturnedStructure(r) == AnalyzeStructure(ProjectRoot, structure[r][1]).structure

\* C22 as stated: every directory node of the returned tree, the root
\* included, carries the number of file nodes of its subtree as fileCount.
EveryDirectoryCarriesFileCount ==
  \A r \in Runs :
    pc[r] = "scanned" =>
      \A d \in DirectoriesOf(ReturnedStructure(r)) : CarriesFileCount(d)

\* C22 as amended: every directory node below the root carries the number
\* of file nodes of its subtree as fileCount; the root node carries none.
EverySubdirectoryCarriesFileCount ==
  \A r \in Runs :
    pc[r] = "scanned" =>
      /\ \A d \in DirectoriesOf(ReturnedStructure(r)) \ {ReturnedStructure(r)} :
           CarriesFileCount(d)
      /\ ~ReturnedStructure(r).metadata.defined

\* A tree has been returned in which a directory holds one file of its own
\* and one in a subdirectory: its fileCount is 2.
NestedFilesCounted ==
  \E r \in Runs :
    /\ pc[r] = "scanned"
    /\ \E d \in DirectoriesOf(ReturnedStructure(r)) \ {ReturnedStructure(r)} :
         /\ CountFilesDirect(d) = 1
         /\ \E c \in Range(d.children) : c.type = "directory" /\ c.metadata.fileCount = 1
         /\ d.metadata.fileCount = 2

(***************************************************************************)
(* Properties of the records of one cycle                                  *)
(***************************************************************************)
\* The number of returned records whose cyclePath is the label path or one
\* of its rotations.
RecordsOfCycle(r, labels) ==
  CountWhere(circularDependencies[r], LAMBDA rec : rec.path \in Rotations(labels))

\* The number of simple cycles of the graph, rotations of one cycle
\* counted once, whose members carry the labels in cycle order.
CyclesLabelled(r, labels) ==
  Cardinality({c \in SimpleCycles(dependencyMap[r]) :
                 LabelsOf(filePathToModuleName[r], c) \in Rotations(labels)})
  \div Len(labels)

\* The keys outside the cycle from which the traversal enters the cycle.
OutsideEntryPoints(map, c) ==
  {k \in KeySet(map) \ Range(c) : \E m \in Range(c) : HasEdge(map, k, m)}

EqualPathsOfDifferentCycles ==
  \E r \in Runs :
    /\ Detected(r)
    /\ \E i, j \in DOMAIN circularDependencies[r] :
         i # j /\ circularDependencies[r][i].path = circularDependencies[r][j].path

(***************************************************************************)
(* Properties of the traversal order                                       *)
(***************************************************************************)
\* The activation record dfs pushed in this step, if it pushed one.
Expanded(r) == IF Len(frames'[r]) > Len(frames[r]) THEN {frames'[r][Len(frames'[r])].node} ELSE {}

\* One step of the traversal: a node is expanded only if it is neither
\* visited nor on the stack; a node becomes visited only when the call
\* that expanded it returns after its last out-edge, and leaves the stack
\* at that moment and at no other; a visited node stays visited.
ExploresOnce(r) ==
  /\ Expanded(r) \cap (visited[r] \cup stack[r]) = {}
  /\ Expanded(r) \subseteq stack'[r]
  /\ visited[r] \subseteq visited'[r]
  /\ stack[r] \ stack'[r] = visited'[r] \ visited[r]
  /\ \A n \in visited'[r] \ visited[r] :
       /\ frames[r] # <<>>
       /\ frames[r][Len(frames[r])].node = n
       /\ frames[r][Len(frames[r])].next > Len(DependenciesOf(dependencyMap[r], n))
       /\ frames'[r] = SubSeq(frames[r], 1, Len(frames[r]) - 1)

\* The nodes on the stack are the nodes of the activation records, each
\* once, and none of them is visited.
StackIsCallChain(r) ==
  /\ stack[r] = {frames[r][i].node : i \in DOMAIN frames[r]}
  /\ NoDup([i \in DOMAIN frames[r] |-> frames[r][i].node])
  /\ stack[r] \cap visited[r] = {}

\* C24: each node's out-edges are explored at most once: a node is added
\* to visited only after all its out-edges have been explored, a visited
\* node is never expanded again, and when the run ends the stack is empty
\* and every key of the map is visited.
EachNodeExploredOnce ==
  /\ [](\A r \in Runs : /\ StackIsCallChain(r)
                        /\ Detected(r) => /\ stack[r] = {}
                                          /\ KeySet(dependencyMap[r]) \subseteq visited[r])
  /\ [][\A r \in Runs : ExploresOnce(r)]_vars

\* The run has ended on a map in which a key is imported by two other
\* keys and by itself through a cycle: it was met again after it had been
\* explored.
SharedNodeExplored ==
  \E r \in Runs :
    /\ Detected(r)
    /\ ~Acyclic(dependencyMap[r])
    /\ \E n \in KeySet(dependencyMap[r]) :
         Cardinality({k \in KeySet(dependencyMap[r]) : HasEdge(dependencyMap[r], k, n)}) >= 3
    /\ stack[r] = {}
    /\ KeySet(dependencyMap[r]) \subseteq visited[r]

(***************************************************************************)
(* Properties of the relationship ids                                      *)
(***************************************************************************)
\* C25: analyzeComponents returns at most one relationship per ordered
\* pair of source and target, so the relationship ids are pairwise
\* distinct, also when a file imports a capitalized name through more
\* than one import specifier.
RelationshipIdsDistinct ==
  \A r \in Runs :
    pc[r] = "componentsDone" =>
      \A i, j \in DOMAIN relationships[r] :
        i # j => /\ relationships[r][i].id # relationships[r][j].id
                 /\ <<relationships[r][i].source, relationships[r][i].target>>
                      # <<relationships[r][j].source, relationships[r][j].target>>

\* What analyzeComponents does: a relationship is pushed for every
\* occurrence of the name in importedComponents, so a file that binds
\* Button through two import specifiers yields the relationship twice.
RepeatedImportRepeatsRelationship ==
  \A r \in Runs :
    pc[r] = "componentsDone" =>
      \A e \in DOMAIN importMap[r] :
        \A s, t \in DOMAIN componentNodes[r] :
          (/\ componentNodes[r][s].filePath = importMap[r][e][1]
           /\ componentNodes[r][s].id # componentNodes[r][t].id) =>
             CountWhere(relationships[r],
                        LAMBDA x : /\ x.source = componentNodes[r][s].id
                                   /\ x.target = componentNodes[r][t].id)
               >= CountWhere(importMap[r][e][2], LAMBDA n : n = componentNodes[r][t].label)

(***************************************************************************)
(* Inputs of analyzeISP: interfaces by the names of their members          *)
(***************************************************************************)
\* The largest number of members of an interface whose key contains none
\* of the pattern words.
MaxPlainMembers == 7

\* Keys that contain a presentation word, a data word, an event word (icon
\* contains 'on'), a data and an event word, and none of the words.
UiKeys == <<"color", "size">>
DataKeys == <<"data", "value">>
EventKeys == <<"onClick", "icon">>
MixedKeys == <<"dataHandler">>
PlainKeys == <<"id", "title", "label", "kind", "key", "href", "alt", "role", "slot",
               "tag", "max", "name">>

\* A type definition with the first u, d, e, m and p keys of the five kinds.
NamedMembers(type, u, d, e, m, p) ==
  [type |-> type, name |-> "PanelProps", extends |-> <<>>,
   members |-> [i \in DOMAIN (SubSeq(UiKeys, 1, u) \o SubSeq(DataKeys, 1, d)
                              \o SubSeq(EventKeys, 1, e) \o SubSeq(MixedKeys, 1, m)
                              \o SubSeq(PlainKeys, 1, p)) |->
                  MkMember("TSPropertySignature",
                           (SubSeq(UiKeys, 1, u) \o SubSeq(DataKeys, 1, d)
                            \o SubSeq(EventKeys, 1, e) \o SubSeq(MixedKeys, 1, m)
                            \o SubSeq(PlainKeys, 1, p))[i], 0)]]

\* analyzeSolid is given one file that declares one interface or type alias.
InitISP ==
  /\ pc = [r \in {1} |-> "solid"]
  /\ \E type \in {"TSInterfaceDeclaration", "TSTypeAliasDeclaration"} :
       \E u \in 0..Len(UiKeys), d \in 0..Len(DataKeys), e \in 0..Len(EventKeys),
          m \in 0..Len(MixedKeys), p \in 0..MaxPlainMembers :
         fileData = [r \in {1} |->
                       <<CreateFileNode(SolidFilePaths[1], 1,
                                        MkAst(TRUE, <<>>, <<>>, <<>>,
                                              <<NamedMembers(type, u, d, e, m, p)>>))>>]
  /\ fileIdx = [r \in {1} |-> 1]
  /\ InitDepsIdle({1})
  /\ InitDFSIdle({1})
  /\ InitCompIdle({1})
  /\ InitSolidIdle({1})
  /\ InitScanIdle({1})

NextISP == \E r \in Runs : SolidFile(r) \/ SolidReturn(r)

SpecISP == InitISP /\ [][NextISP]_vars

(***************************************************************************)
(* Properties of analyzeISP                                                *)
(***************************************************************************)
\* The number of members whose key contains a word of the bucket.
BucketSize(typeDefinition, words) ==
  CountWhere(typeDefinition.members, LAMBDA m : WordsIn(m.key) \cap words # {})

\* At least two of the three buckets hold at least 2 members each.
TwoBucketsOfTwo(typeDefinition) ==
  Cardinality({w \in {UiWords, DataWords, EventWords} :
                 BucketSize(typeDefinition, w) >= 2}) >= 2

\* The interfaces of the analysed files.
AnalysedInterfaces(r) ==
  {<<f, t>> \in UNION {{<<fileData[r][i], fileData[r][i].ast.types[k]>> :
                           k \in DOMAIN fileData[r][i].ast.types} :
                        i \in DOMAIN fileData[r]} :
     t.type = "TSInterfaceDeclaration"}

\* C26 as stated: the unrelated-props issue is emitted for an interface
\* exactly when at least two of the three buckets contain at least 2 of
\* its members, whatever its member count, and the large-interface issue
\* exactly when it has more than 10 members.
UnrelatedPropsForEveryMemberCount ==
  \A r \in Runs :
    SolidDone(r) =>
      \A x \in AnalysedInterfaces(r) :
        /\ IssuesFor(r, x[1], "isp-unrelated-props") =
             (IF TwoBucketsOfTwo(x[2]) THEN 1 ELSE 0)
        /\ IssuesFor(r, x[1], "isp-large-interface") =
             (IF Len(x[2].members) > 10 THEN 1 ELSE 0)

\* C26 as amended: the unrelated-props issue is emitted for an interface
\* exactly when it has more than 5 members and at least two of the three
\* buckets contain at least 2 of them; the large-interface issue exactly
\* when it has more than 10 members.
UnrelatedPropsAboveFiveMembers ==
  \A r \in Runs :
    SolidDone(r) =>
      \A x \in AnalysedInterfaces(r) :
        /\ IssuesFor(r, x[1], "isp-unrelated-props") =
             (IF Len(x[2].members) > 5 /\ TwoBucketsOfTwo(x[2]) THEN 1 ELSE 0)
        /\ IssuesFor(r, x[1], "isp-large-interface") =
             (IF Len(x[2].members) > 10 THEN 1 ELSE 0)

\* An interface of six members, two of them presentation and two event
\* members, has been analysed and has the unrelated-props issue only.
SixMembersTwoBuckets ==
  \E r \in Runs :
    /\ SolidDone(r)
    /\ \E x \in AnalysedInterfaces(r) :
         /\ Len(x[2].members) = 6
         /\ BucketSize(x[2], UiWords) = 2
         /\ BucketSize(x[2], DataWords) = 0
         /\ BucketSize(x[2], EventWords) = 2
         /\ IssuesFor(r, x[1], "isp-unrelated-props") = 1
         /\ IssuesFor(r, x[1], "isp-large-interface") = 0

\* An interface of four members, two presentation and two data members,
\* has been analysed and has no issue.
FourMembersTwoBuckets ==
  \E r \in Runs :
    /\ SolidDone(r)
    /\ \E x \in AnalysedInterfaces(r) :
         /\ Len(x[2].members) = 4
         /\ BucketSize(x[2], UiWords) = 2
         /\ BucketSize(x[2], DataWords) = 2
         /\ IssuesFor(r, x[1], "isp-unrelated-props") = 0

(***************************************************************************)
(* Two invocations of the graph builders on different projects             *)
(***************************************************************************)
\* A source file that defines a component of its own name and imports the
\* other file, or nothing.
ProjectFile(from, other, parses, importsOther) ==
  CreateFileNode(from, 1,
    MkAst(parses,
          IF importsOther
          THEN <<[source |-> RelativeSpecifier(from, other, TRUE),
                  specifiers |-> <<[type |-> "ImportDefaultSpecifier",
                                    local |-> other.stem]>>]>>
          ELSE <<>>,
          <<>>, <<MkComponent("FunctionDeclaration", from.stem)>>, <<>>))

\* The projects the two invocations are given: all of them hold the file
\* src/Card.ts, with different neighbours.
Projects ==
  << <<ProjectFile(PipelinePaths[1], PipelinePaths[2], TRUE, TRUE),
       ProjectFile(PipelinePaths[2], PipelinePaths[1], TRUE, TRUE)>>,
     <<ProjectFile(PipelinePaths[2], PipelinePaths[1], TRUE, TRUE),
       ReadmeFile,
       ProjectFile(PipelinePaths[1], PipelinePaths[2], TRUE, FALSE)>>,
     <<ProjectFile(PipelinePaths[2], PipelinePaths[1], TRUE, TRUE)>>,
     <<ProjectFile(PipelinePaths[1], PipelinePaths[2], FALSE, FALSE),
       ProjectFile(PipelinePaths[2], PipelinePaths[1], TRUE, FALSE)>> >>

InitBuilders ==
  /\ pc = [r \in PipelineRuns |-> "deps"]
  /\ \E i, j \in DOMAIN Projects :
       /\ i # j
       /\ fileData = [r \in PipelineRuns |-> IF r = 1 THEN Projects[i] ELSE Projects[j]]
  /\ fileIdx = [r \in PipelineRuns |-> 1]
  /\ InitDepsIdle(PipelineRuns)
  /\ InitDFSIdle(PipelineRuns)
  /\ InitCompIdle(PipelineRuns)
  /\ InitSolidIdle(PipelineRuns)
  /\ InitScanIdle(PipelineRuns)

\* The steps of analyzeDependencies and analyzeComponents of either
\* invocation, in any interleaving.
NextBuilders ==
  \E r \in Runs :
    \/ DepsFile(r) \/ DepsDetect(r)
    \/ DfsRoot(r) \/ DfsExplore(r) \/ DfsReturn(r) \/ DetectReturn(r)
    \/ CompStart(r) \/ CompFile(r) \/ CompRelate(r)

SpecBuilders == InitBuilders /\ [][NextBuilders]_vars

(***************************************************************************)
(* Properties of interleaved invocations                                   *)
(***************************************************************************)
\* The source files of the project that parse, in input order.
ParsedFiles(files) == SelectSeq(TsFiles(files), LAMBDA f : f.ast.ok)

\* What analyzeDependencies builds from the project when it runs alone.
DependencyNodesAlone(files) ==
  [i \in DOMAIN ParsedFiles(files) |-> DependencyNode(ParsedFiles(files)[i])]

DependencyMapAlone(files) ==
  [i \in DOMAIN ParsedFiles(files) |->
     <<ParsedFiles(files)[i].path, DependencyNode(ParsedFiles(files)[i]).imports>>]

\* What analyzeComponents builds from the project when it runs alone.
ImportMapAlone(files) ==
  LET importing == SelectSeq(ParsedFiles(files),
                             LAMBDA f : ImportedComponents(f.ast.imports) # <<>>)
  IN  [i \in DOMAIN importing |->
         <<importing[i].path, ImportedComponents(importing[i].ast.imports)>>]

FirstPassNodesAlone(files) ==
  Flatten([i \in DOMAIN ParsedFiles(files) |-> ComponentNodesOf(ParsedFiles(files)[i])])

RelationshipsAlone(files) ==
  LET nodes == FirstPassNodesAlone(files)
      pairs == RelationshipPairs(nodes, ImportMapAlone(files))
  IN  [i \in DOMAIN pairs |-> Relationship(nodes[pairs[i][1]], nodes[pairs[i][2]])]

ComponentNodesAlone(files) ==
  FinishedNodes(FirstPassNodesAlone(files),
                RelationshipPairs(FirstPassNodesAlone(files), ImportMapAlone(files)))

\* C27: two invocations of a graph builder on different projects, their
\* steps interleaved at the awaits of the file loop, do not interfere:
\* each ends with the node list, the maps and the relationships it builds
\* from its own project when it runs alone.
InterleavedBuildersAgreeWithAlone ==
  \A r \in Runs :
    /\ Past(r, "deps") =>
         /\ dependencyNodes[r] = DependencyNodesAlone(fileData[r])
         /\ dependencyMap[r] = DependencyMapAlone(fileData[r])
    /\ Past(r, "components") =>
         /\ componentNodes[r] = ComponentNodesAlone(fileData[r])
         /\ importMap[r] = ImportMapAlone(fileData[r])
         /\ relationships[r] = RelationshipsAlone(fileData[r])

\* Both invocations are in the file loop of analyzeComponents, each past
\* its first file, after analyzeDependencies has returned different maps
\* that share a key; a moment later both have finished.
BothBuildersInFlight ==
  /\ Cardinality(Runs) = 2
  /\ fileData[1] # fileData[2]
  /\ \A r \in Runs : pc[r] = "components" /\ fileIdx[r] = 2
  /\ dependencyMap[1] # dependencyMap[2]
  /\ KeySet(dependencyMap[1]) \cap KeySet(dependencyMap[2]) # {}
  /\ componentNodes[1] # <<>> /\ componentNodes[2] # <<>>

(***************************************************************************)
(* Properties of the records as cycles of the graph                        *)
(***************************************************************************)
\* The files of the cycle dfs closes in this step: the path of the active
\* call from the dependency it meets on the stack.
ClosedCycle(r) ==
  LET top == frames[r][Len(frames[r])]
      node == DependenciesOf(dependencyMap[r], top.node)[top.next]
  IN  SubSeq(top.path, CHOOSE i \in DOMAIN top.path : top.path[i] = node, Len(top.path))

\* A step that pushes a record pushes one record, for files that form a
\* cycle of the graph: no file twice, an edge between neighbours and from
\* the last file to the first; the cyclePath holds their labels.
PushesGenuineCycle(r) ==
  circularDependencies'[r] # circularDependencies[r] =>
    /\ frames[r] # <<>>
    /\ Len(circularDependencies'[r]) = Len(circularDependencies[r]) + 1
    /\ SubSeq(circularDependencies'[r], 1, Len(circularDependencies[r]))
         = circularDependencies[r]
    /\ NoDup(ClosedCycle(r))
    /\ \A i \in 1..(Len(ClosedCycle(r)) - 1) :
         HasEdge(dependencyMap[r], ClosedCycle(r)[i], ClosedCycle(r)[i + 1])
    /\ HasEdge(dependencyMap[r], ClosedCycle(r)[Len(ClosedCycle(r))], ClosedCycle(r)[1])
    /\ circularDependencies'[r][Len(circularDependencies'[r])].path
         = LabelsOf(filePathToModuleName[r], ClosedCycle(r))

\* C28: every record returned is a genuine cycle of the input graph: its
\* path names files without repetition, each consecutive pair is an edge
\* of the adjacency map, and the last member has an edge to the first.
EveryRecordIsGenuineCycle ==
  /\ [](\A r \in Runs :
          Detected(r) =>
            \A i \in DOMAIN circularDependencies[r] :
              \E c \in SimpleCycles(dependencyMap[r]) :
                circularDependencies[r][i].path = LabelsOf(filePathToModuleName[r], c))
  /\ [][\A r \in Runs : PushesGenuineCycle(r)]_vars

\* The run has ended with the record of a cycle of three files that is
\* entered through a file outside it.
TailedCycleRecorded ==
  \E r \in Runs :
    /\ Detected(r)
    /\ \E i \in DOMAIN circularDependencies[r] :
         /\ Len(circularDependencies[r][i].path) = 3
         /\ \E c \in SimpleCycles(dependencyMap[r]) :
              /\ circularDependencies[r][i].path = LabelsOf(filePathToModuleName[r], c)
              /\ OutsideEntryPoints(dependencyMap[r], c) # {}
              /\ dependencyMap[r][1][1] \notin Range(c)

(***************************************************************************)
(* Termination of the cycle detector                                       *)
(***************************************************************************)
\* The detector keeps taking steps while it has one to take.
SpecCycleFair == SpecCycle /\ WF_vars(NextCycle)

\* The keys of the map that import themselves.
SelfImports(map) == {k \in KeySet(map) : HasEdge(map, k, k)}

\* C29: detectCircularDependencies terminates on every finite adjacency
\* map, with cycles, self-imports and dangling import targets; a file
\* that imports itself is reported as a one-member cycle of severity
\* warning.
DetectorTerminates ==
  /\ <>(\A r \in Runs : Detected(r))
  /\ [](\A r \in Runs :
          Detected(r) =>
            \A k \in SelfImports(dependencyMap[r]) :
              \E i \in DOMAIN circularDependencies[r] :
                /\ circularDependencies[r][i].path = <<LabelOf(filePathToModuleName[r], k)>>
                /\ circularDependencies[r][i].severity = "warning")

\* The run has ended on a map with a self-import, a longer cycle and a
\* dangling import target.
MixedMapTerminated ==
  \E r \in Runs :
    /\ Detected(r)
    /\ SelfImports(dependencyMap[r]) # {}
    /\ \E c \in SimpleCycles(dependencyMap[r]) : Len(c) >= 2
    /\ HasDanglingImport(dependencyMap[r])
    /\ \E i \in DOMAIN circularDependencies[r] : Len(circularDependencies[r][i].path) = 1

(***************************************************************************)
(* analyzeTypes                                                            *)
(***************************************************************************)
\* The kind extractTypeInfo gives a definition of that node type; "" for a
\* node it returns null for.
TypeKind(typeDef) ==
  IF typeDef.name = "" THEN ""
  ELSE CASE typeDef.type = "TSInterfaceDeclaration" -> "interface"
         [] typeDef.type = "TSTypeAliasDeclaration" -> "type"
         [] typeDef.type = "TSEnumDeclaration" -> "enum"
         [] typeDef.type = "ClassDeclaration" -> "class"
         [] OTHER -> ""

\* extractTypeInfo: the id is `${kind}-${name}-${path.basename(filePath)}`.
ExtractTypeInfo(typeDef, filePath) ==
  [id |-> [kind |-> TypeKind(typeDef), name |-> typeDef.name,
           basename |-> Basename(filePath)],
   name |-> typeDef.name, kind |-> TypeKind(typeDef), filePath |-> filePath,
   extends |-> typeDef.extends]

\* The TypeInfo records one file pushes onto types, in declaration order.
TypeInfosOf(file) ==
  LET known == SelectSeq(file.ast.types, LAMBDA d : TypeKind(d) # "")
  IN  [i \in DOMAIN known |-> ExtractTypeInfo(known[i], file.path)]

RECURSIVE UsageKeys(_, _)
\* The keys of the usages object in insertion order: the ids of the
\* defined types, each once.
UsageKeys(definedTypes, acc) ==
  IF definedTypes = <<>> THEN acc
  ELSE UsageKeys(Tail(definedTypes), SetAdd(acc, Head(definedTypes).id))

\* The locations pushed for the type id: one per reference and matching
\* type, in traversal order.
UsageLocations(references, definedTypes, id) ==
  Flatten([k \in DOMAIN references |->
    LET matchingTypes == SelectSeq(definedTypes,
                                   LAMBDA t : t.name = references[k].name /\ t.id = id)
    IN  [m \in DOMAIN matchingTypes |-> references[k].line]])

\* findTypeUsages: a record per defined type id, counted over the type
\* references of the file; the records with count 0 are filtered out.
FindTypeUsages(references, filePath, definedTypes) ==
  LET keys == UsageKeys(definedTypes, <<>>)
      all == [i \in DOMAIN keys |->
                [typeId |-> keys[i], filePath |-> filePath,
                 count |-> Len(UsageLocations(references, definedTypes, keys[i])),
                 locations |-> UsageLocations(references, definedTypes, keys[i])]]
  IN  SelectSeq(all, LAMBDA usage : usage.count > 0)

RECURSIVE TypeInfosOfAll(_)
TypeInfosOfAll(files) ==
  IF files = <<>> THEN <<>>
  ELSE (IF IsTsFile(Head(files)) /\ Head(files).ast.ok THEN TypeInfosOf(Head(files)) ELSE <<>>)
       \o TypeInfosOfAll(Tail(files))

DefinedTypesOfProject(r, file) == TypeInfosOfAll(fileData[r])

\* types after the definitions of the file have been pushed: the list
\* findTypeUsages is given.
DefinedTypesAt(r, file) == typeInfos[r] \o TypeInfosOf(file)

\* The issue pushed for a file that could not be read or parsed.
ParseErrorIssue(file) ==
  [id |-> [rule |-> "parse-error", filePath |-> file.path], kind |-> "complex",
   severity |-> "error", filePath |-> file.path]

\* One iteration of the loop over fileData.
TypesFile(r) ==
  /\ pc[r] = "types"
  /\ fileIdx[r] <= Len(fileData[r])
  /\ LET file == fileData[r][fileIdx[r]]
     IN  IF ~IsTsFile(file)
         THEN UNCHANGED typeVars
         ELSE IF file.ast.ok
         THEN /\ typeInfos' = [typeInfos EXCEPT ![r] = @ \o TypeInfosOf(file)]
              /\ typeUsages' = [typeUsages EXCEPT ![r] =
                   @ \o FindTypeUsages(file.ast.references, file.path,
                                       DefinedTypesAt(r, file))]
              /\ typeIssues' = [typeIssues EXCEPT ![r] = @ \o file.ast.typeIssues]
         ELSE /\ typeIssues' = [typeIssues EXCEPT ![r] = Append(@, ParseErrorIssue(file))]
              /\ UNCHANGED <<typeInfos, typeUsages>>
  /\ fileIdx' = [fileIdx EXCEPT ![r] = @ + 1]
  /\ UNCHANGED <<pc, fileData, depVars, dfsVars, compVars, solidVars, scanFrames, structure,
                 disk, routeMap, suggestions>>

\* After the last file: the statistics are computed and the lists returned.
TypesReturn(r) ==
  /\ pc[r] = "types"
  /\ fileIdx[r] > Len(fileData[r])
  /\ pc' = [pc EXCEPT ![r] = "typesDone"]
  /\ UNCHANGED <<fileData, fileIdx, depVars, dfsVars, compVars, solidVars, scanVars>>

(***************************************************************************)
(* Inputs of analyzeTypes                                                  *)
(***************************************************************************)
\* The largest number of files analyzeTypes is given.
MaxTypeFiles == 2

\* The syntax tree of a file as analyzeTypes reads it: type definitions,
\* type references (name and line) and the issues findTypeIssues finds.
MkTypedAst(ok, typeDefinitions, references) ==
  [ok |-> ok, imports |-> <<>>, exports |-> <<>>, components |-> <<>>,
   types |-> typeDefinitions, references |-> references, typeIssues |-> <<>>]

TypeDefinition(type, name) == [type |-> type, name |-> name, extends |-> <<>>, members |-> <<>>]

TypeDefinitionLists ==
  { <<>>,
    <<TypeDefinition("TSInterfaceDeclaration", "Props")>>,
    <<TypeDefinition("TSTypeAliasDeclaration", "Id")>>,
    <<TypeDefinition("TSInterfaceDeclaration", "Props"),
      TypeDefinition("TSEnumDeclaration", "Mode")>>,
    <<TypeDefinition("TSModuleDeclaration", "Props"),
      TypeDefinition("ClassDeclaration", "Id")>> }

TypeReference(name, line) == [name |-> name, line |-> line]

TypeReferenceLists ==
  { <<>>,
    <<TypeReference("Props", 3)>>,
    <<TypeReference("Props", 3), TypeReference("Id", 4), TypeReference("Props", 9)>>,
    <<TypeReference("Mode", 5), TypeReference("Missing", 6)>> }

TypeFilePaths ==
  <<MkPath(<<"src">>, "types", ".ts"), MkPath(<<"src", "components">>, "Button", ".tsx"),
    MkPath(<<"src", "lib">>, "types", ".ts")>>

\* The files at a path: unparsable, not a source file, or a source file
\* with definitions and references.
TypedFiles(p) ==
  {CreateFileNode(p, 1, MkTypedAst(TRUE, d, u)) :
     d \in TypeDefinitionLists, u \in TypeReferenceLists}
  \cup {CreateFileNode(p, 1, MkTypedAst(FALSE, <<>>, <<>>)),
        CreateFileNode(MkPath(p.dir, p.stem, ".md"), 1, MkTypedAst(FALSE, <<>>, <<>>))}

InitTypes ==
  /\ pc = [r \in {1} |-> "types"]
  /\ \E n \in 1..MaxTypeFiles :
       \E fs \in [1..n -> UNION {TypedFiles(TypeFilePaths[i]) : i \in DOMAIN TypeFilePaths}] :
         /\ \A i \in 1..n : fs[i].path.dir = TypeFilePaths[((i - 1) % 3) + 1].dir
         /\ fileData = [r \in {1} |-> fs]
  /\ fileIdx = [r \in {1} |-> 1]
  /\ InitDepsIdle({1})
  /\ InitDFSIdle({1})
  /\ InitCompIdle({1})
  /\ InitSolidIdle({1})
  /\ InitScanIdle({1})

NextTypes == \E r \in Runs : TypesFile(r) \/ TypesReturn(r)

SpecTypes == InitTypes /\ [][NextTypes]_vars

(***************************************************************************)
(* Properties of the type usages                                           *)
(***************************************************************************)
\* The files analyzeTypes has read definitions from among the first i.
DefiningFiles(r, i) ==
  {j \in 1..i : IsTsFile(fileData[r][j]) /\ fileData[r][j].ast.ok}

\* The definitions (file, position) pushed onto types by the first i files.
DefinitionsUpTo(r, i) ==
  {d \in UNION {{<<j, k>> : k \in DOMAIN fileData[r][j].ast.types} :
                  j \in DefiningFiles(r, i)} :
     TypeKind(fileData[r][d[1]].ast.types[d[2]]) # ""}

DefinitionAt(r, d) == ExtractTypeInfo(fileData[r][d[1]].ast.types[d[2]], fileData[r][d[1]].path)

\* The number of pairs of a reference of file i and a definition with the
\* id, of the referenced name, among the definitions of the first i files.
ReferencesCounted(r, i, id) ==
  Cardinality({p \in (DOMAIN fileData[r][i].ast.references) \X DefinitionsUpTo(r, i) :
                 /\ DefinitionAt(r, p[2]).id = id
                 /\ DefinitionAt(r, p[2]).name = fileData[r][i].ast.references[p[1]].name})

\* The usage records of file i as type id and count.
UsagesOfFile(r, i) ==
  {[typeId |-> typeUsages[r][k].typeId, count |-> typeUsages[r][k].count] :
     k \in {k \in DOMAIN typeUsages[r] : typeUsages[r][k].filePath = fileData[r][i].path}}

ExpectedUsagesOfFile(r, i) ==
  IF i \notin DefiningFiles(r, i) THEN {}
  ELSE {u \in {[typeId |-> DefinitionAt(r, d).id,
                count |-> ReferencesCounted(r, i, DefinitionAt(r, d).id)] :
                  d \in DefinitionsUpTo(r, i)} : u.count > 0}

\* The files whose iteration of the loop has finished.
FilesProcessed(r) == 1..(IF fileIdx[r] - 1 < Len(fileData[r]) THEN fileIdx[r] - 1
                          ELSE Len(fileData[r]))

RECURSIVE SumCardinality(_, _, _)
SumCardinality(r, i, acc) ==
  IF i = 0 THEN acc ELSE SumCardinality(r, i - 1, acc + Cardinality(ExpectedUsagesOfFile(r, i)))

\* C30: a reference in file F to a type T is counted only against the
\* definitions of the files processed no later than F: the usage records of
\* each processed file are exactly the type ids defined in the files up to
\* and including it that the file references, each with the number of its
\* references to them, and only records with a count above 0 are returned.
UsagesCountTypesDefinedSoFar ==
  \A r \in Runs :
    pc[r] \in {"types", "typesDone"} =>
      /\ \A i \in FilesProcessed(r) : UsagesOfFile(r, i) = ExpectedUsagesOfFile(r, i)
      /\ \A k \in DOMAIN typeUsages[r] : typeUsages[r][k].count > 0
      /\ Len(typeUsages[r]) = SumCardinality(r, Cardinality(FilesProcessed(r)), 0)

\* The first file references a type that only the second file defines and
\* references too: the reference of the first file is in no usage record,
\* those of the second file are.
LaterDefinitionNotCounted ==
  \E r \in Runs :
    /\ pc[r] = "typesDone"
    /\ Len(fileData[r]) >= 2
    /\ \E d \in DefinitionsUpTo(r, 2) :
         /\ d[1] = 2
         /\ \A e \in DefinitionsUpTo(r, 1) : DefinitionAt(r, e).name # DefinitionAt(r, d).name
         /\ \E m \in DOMAIN fileData[r][1].ast.references :
              fileData[r][1].ast.references[m].name = DefinitionAt(r, d).name
         /\ 1 \in DefiningFiles(r, 1)
         /\ \A k \in DOMAIN typeUsages[r] :
              typeUsages[r][k].typeId = DefinitionAt(r, d).id
                => typeUsages[r][k].filePath = fileData[r][2].path
         /\ \E k \in DOMAIN typeUsages[r] :
              /\ typeUsages[r][k].typeId = DefinitionAt(r, d).id
              /\ typeUsages[r][k].count = 2

====
